---- MODULE Spec2Model ----
(***************************************************************************)
(* Model of the rustonator game server: the world map (cell grid, internal *)
(* index, danger map, zones), the bomb propagation engine, the player      *)
(* session state machine, the mobs and the tick scheduler of               *)
(* RustonatorGame.                                                         *)
(*                                                                         *)
(* Time is counted in milliseconds.  Positions of players and mobs are     *)
(* kept as the tile that PixelPosition::to_map_position yields; a player   *)
(* moves a whole tile per accepted frame and a mob a whole tile per        *)
(* update.  The mob spawn timer is drawn from 1..60 s (game_loop,          *)
(* next_mob_spawn_seconds): in the runs of the player sessions it does not *)
(* run out, so the store of mobs stays empty there; the runs of SpecMob    *)
(* and SpecHorde are those in which it does, and they have no player       *)
(* sessions.  Ping / Pong is answered inside recv_one; heartbeats are sent *)
(* in the run whose messages wait in the inbound queue (QueueRun).         *)
(*                                                                         *)
(* The specifications share the variables and, where they model the same   *)
(* code, the actions: Spec (two free clients on a 5x5 map, 2 s frames),    *)
(* SpecSolo (one client on a 7x5 map, 1 s frames, long enough for the      *)
(* block refill), SpecChain and SpecRelay (two clients sending fixed       *)
(* sequences that bring bombs into each other's reach), SpecFuse (one      *)
(* client that stops firing, under weak fairness of the calls of a         *)
(* game_loop iteration), SpecQueue (two clients whose messages wait in the *)
(* inbound queue), SpecNew (World::new on every size up to MaxDim),        *)
(* SpecFresh (one bomb on a freshly constructed map), SpecBlank            *)
(* (find_nearest_blank on maps with at most two Empty cells), SpecPath     *)
(* (path_find on a 7x5 map with up to MaxBlocks blocks), SpecMob (mobs of  *)
(* every target mode and a bomb on a 5x5 map), SpecHorde (mobs gathering   *)
(* on a 7x5 map until max_mobs is reached), SpecSafe                       *)
(* (path_find_nearest_safe_space on a 7x5 map with bombs), SpecBlast       *)
(* (detonations and the ageing of explosions on a 7x5 map with up to       *)
(* BlastBombIds bombs), SpecRefill (populate_blocks on a map of two        *)
(* zones), SpecFx (the effects of one player) and SpecName (sanitise_name  *)
(* on the name of a joining player).                                       *)
(***************************************************************************)
EXTENDS Integers, Sequences, FiniteSets, TLC

VARIABLES
    phase,          \* position of the scheduler inside RustonatorGame::new / game_loop
    req,            \* the parameters of the run (size passed to RustonatorGame::new, bounds)
    world,          \* struct World: sizes, data, data_internal, data_mob, zones
    mob_spawners,   \* RustonatorGame.mob_spawners
    mobs,           \* RustonatorGame.mobs: ItemStore<MobId, Mob>
    players,        \* RustonatorGame.players: PlayerId -> Player
    bombs,          \* RustonatorGame.bombs: ItemStore<BombId, Bomb>
    explosions,     \* RustonatorGame.explosions: ItemStore<ExplosionId, Explosion>
    now,            \* wall clock in ms (Utc::now().timestamp_millis())
    ticks,          \* number of iterations of game_loop started
    delta_time,     \* delta_time of the running iteration, in ms
    next_player_id, \* next id the accept loop issues
    connect_queue,  \* PlayerConnectEvent queue between accept loop and scheduler
    links,          \* per connection: whether its tasks live, the messages its client has sent,
                    \* its inbound queue, the Pongs sent on it and (history) what recv_one returned
                    \* and whether a bomb was placed and no action without fire came since,
                    \* and what is left of 5 s of tick time since the player became Active
    add_blocks_timer, \* Instant the block refill timer was last reset
    sent,           \* history: kinds of message sent on each player's outbound stream
    before,         \* history: pairs <<a, b>> with a sent before b on that stream
    moves,          \* history: state transitions <<from, to>> each player has made
    last_op         \* history: what the last step did (for the claims' cases)

vars == <<phase, req, world, mob_spawners, mobs, players, bombs, explosions, now, ticks,
          delta_time, next_player_id, connect_queue, links, add_blocks_timer,
          sent, before, moves, last_op>>

----------------------------------------------------------------------------
(* Bounds of the exploration *)

\* largest width / height requested from World::new in SpecNew
MaxDim == 10

\* Spec: number of iterations of game_loop, of connections the accept loop
\* takes, of bombs the clients ask for (fire is not sent any more after
\* that) and of connections that are lost
MaxTicks == 5
MaxPlayers == 2
MaxBombIds == 2
MaxExits == 1

\* the accept loop takes its connections up to this iteration of game_loop
AcceptTicks == 0

\* the random numbers an ItemRandom pickup draws
ItemRandomDraws == {[r |-> 0, effect |-> 0, duration |-> 3000, amount |-> 10]}

\* the actions the clients send
Stay == [x |-> 0, y |-> 0, fire |-> FALSE]
Fire == [x |-> 0, y |-> 0, fire |-> TRUE]
Right == [x |-> 1, y |-> 0, fire |-> FALSE]
Left == [x |-> -1, y |-> 0, fire |-> FALSE]
Down == [x |-> 0, y |-> 1, fire |-> FALSE]
Up == [x |-> 0, y |-> -1, fire |-> FALSE]
FireRight == [x |-> 1, y |-> 0, fire |-> TRUE]

\* what recv_one returns: no message, a PlayerMessage, or an error
MsgNone == [tag |-> "None"]
MsgJoinGame == [tag |-> "JoinGame"]
MsgAction(a) == [tag |-> "Action", action |-> a]
MsgErr == [tag |-> "Err"]
MsgPing(payload) == [tag |-> "Ping", payload |-> payload]

\* The parameters of a run: the width and height RustonatorGame::new is
\* called with, the bounds above, the actions the clients send and the
\* values the random draws take (positions drawn by populate_initial,
\* populate_blocks, add_mob_spawners and get_spawn_point, and the numbers
\* in 1/100 drawn for a Mystery block that is blown up).
DuelRun ==
    [size |-> <<5, 5>>, ticks |-> MaxTicks, players |-> MaxPlayers, bombs |-> MaxBombIds,
     exits |-> MaxExits, invalid |-> TRUE, delta_times |-> {2000},
     accept |-> [pid \in 0 .. MaxPlayers - 1 |-> 0 .. AcceptTicks],
     actions |-> [pid \in 0 .. MaxPlayers - 1 |-> {Stay, Fire, Right, Left, Down, Up}],
     queued |-> FALSE, scripted |-> FALSE, script |-> [pid \in 0 .. MaxPlayers - 1 |-> <<>>],
     initial_draws |-> {<<2, 1>>}, populate_draws |-> {<<2, 1>>},
     retry_draws |-> {<<1, 1>>}, spawn_draws |-> {<<1, 1>>}, rolls |-> {95, 30}]

\* A run of one player on a 7 x 5 map that lasts until the blocks are
\* refilled
LongTicks == 14
SoloRun ==
    [size |-> <<7, 5>>, ticks |-> LongTicks, players |-> 1, bombs |-> MaxBombIds,
     exits |-> MaxExits, invalid |-> FALSE, delta_times |-> {1000},
     accept |-> [pid \in {0} |-> 0 .. AcceptTicks],
     actions |-> [pid \in {0} |-> {Fire, FireRight, Right, Left, Down, Up}],
     queued |-> FALSE, scripted |-> FALSE, script |-> [pid \in {0} |-> <<>>],
     initial_draws |-> {<<1, 2>>}, populate_draws |-> {<<2, 1>>, <<2, 2>>},
     retry_draws |-> {<<1, 1>>}, spawn_draws |-> {<<1, 1>>}, rolls |-> {95, 85}]

\* A run of one player on a 5 x 5 map whose client stops firing after
\* FuseStop ticks, so that every fuse runs out before the run ends
FuseTicks == 12
FuseStop == 7
FuseRun ==
    [fire_until |-> FuseStop] @@
    [DuelRun EXCEPT !.ticks = FuseTicks, !.players = 1, !.invalid = FALSE,
                    !.delta_times = {1000}, !.accept = [pid \in {0} |-> {0}],
                    !.actions = [pid \in {0} |-> {Fire, FireRight, Right, Left}],
                    !.script = [pid \in {0} |-> <<>>], !.rolls = {95}]

\* A run of two players on the same map in which the second connection is
\* taken later and each client sends a fixed sequence of messages, at the
\* pace it likes
ChainTicks == 12
ChainBombIds == 4
ChainAccept == 4
ChainRun ==
    [size |-> <<7, 5>>, ticks |-> ChainTicks, players |-> 2, bombs |-> ChainBombIds,
     exits |-> MaxExits, invalid |-> FALSE, delta_times |-> {1000},
     accept |-> (0 :> {0}) @@ (1 :> {ChainAccept}),
     actions |-> (0 :> {}) @@ (1 :> {}),
     queued |-> FALSE, scripted |-> TRUE,
     script |-> (0 :> <<MsgJoinGame, MsgAction(FireRight), MsgAction(Right), MsgAction(Left),
                        MsgAction(Left), MsgAction(Fire)>>) @@
                (1 :> <<MsgJoinGame, MsgAction(Down), MsgAction(Up), MsgAction(Right),
                        MsgAction(FireRight), MsgAction(Right), MsgAction(Fire)>>),
     initial_draws |-> {<<1, 2>>}, populate_draws |-> {<<2, 1>>},
     retry_draws |-> {<<1, 1>>}, spawn_draws |-> {<<1, 1>>}, rolls |-> {95}]

\* A run of two players on the same map in which the first walks two tiles
\* to the right before it leaves a bomb and the second leaves a bomb where
\* it was spawned, steps aside and fires again
RelayTicks == 8
RelayBombIds == 3
RelayRun ==
    [size |-> <<7, 5>>, ticks |-> RelayTicks, players |-> 2, bombs |-> RelayBombIds,
     exits |-> MaxExits, invalid |-> FALSE, delta_times |-> {1000},
     accept |-> (0 :> {0}) @@ (1 :> {1}),
     actions |-> (0 :> {}) @@ (1 :> {}),
     queued |-> FALSE, scripted |-> TRUE,
     script |-> (0 :> <<MsgJoinGame, MsgAction(Right), MsgAction(Right),
                        MsgAction(FireRight)>>) @@
                (1 :> <<MsgJoinGame, MsgAction(FireRight), MsgAction(Fire)>>),
     initial_draws |-> {<<1, 2>>}, populate_draws |-> {<<2, 1>>},
     retry_draws |-> {<<1, 1>>}, spawn_draws |-> {<<1, 1>>}, rolls |-> {95}]

\* A run of two players on a 5 x 5 map in which the messages of a client
\* wait in the inbound queue of its connection: the client sends its fixed
\* sequence, heartbeats included, at the pace it likes
QueueTicks == 6
QueueRun ==
    [size |-> <<5, 5>>, ticks |-> QueueTicks, players |-> 2, bombs |-> MaxBombIds,
     exits |-> MaxExits, invalid |-> FALSE, delta_times |-> {1000},
     accept |-> (0 :> {0}) @@ (1 :> {1}),
     actions |-> (0 :> {}) @@ (1 :> {}),
     queued |-> TRUE, scripted |-> TRUE,
     script |-> (0 :> <<MsgJoinGame, MsgPing(1), MsgAction(Right), MsgPing(2), MsgPing(3),
                        MsgAction(Left)>>) @@
                (1 :> <<MsgJoinGame, MsgAction(Down), MsgAction(Up)>>),
     initial_draws |-> {<<2, 1>>}, populate_draws |-> {<<2, 1>>},
     retry_draws |-> {<<1, 1>>}, spawn_draws |-> {<<1, 1>>}, rolls |-> {95}]

----------------------------------------------------------------------------
(* CellType, traits/celltypes.rs *)

Empty == 0
Wall == 1
Mystery == 2
ItemBomb == 3
ItemRange == 4
ItemRandom == 5
MobSpawner == 6
Bomb == 100

\* Option::None of get_cell / get_at
NoCell == -1

\* impl From<u8> for CellType
CellTypeFrom(value) == IF value = 7 THEN Bomb ELSE value

----------------------------------------------------------------------------
(* Positions, engine/position.rs *)

MapPosition(x, y) == <<x, y>>

PositionOffset(x, y) == <<x, y>>

\* impl Add<PositionOffset> for MapPosition
PosAdd(pos, off) == <<pos[1] + off[1], pos[2] + off[2]>>

\* impl Mul<i32> for PositionOffset
OffMul(off, n) == <<off[1] * n, off[2] * n>>

diffu32(a, b) == IF a > b THEN a - b ELSE b - a

is_within_range(self, pos, range) ==
    diffu32(pos[1], self[1]) < range /\ diffu32(pos[2], self[2]) < range

Min(a, b) == IF a < b THEN a ELSE b

----------------------------------------------------------------------------
(* WorldData / InternalWorldData / InternalMobData, engine/worlddata.rs *)

\* WorldData::new, InternalWorldData::new, InternalMobData::new
GridNew(width, height, v) ==
    [data |-> [i \in 0 .. (width * height - 1) |-> v], width |-> width, height |-> height]

\* get_index: None when out of the array's own bounds
GridInBounds(g, pos) ==
    ~(pos[1] < 0 \/ pos[1] >= g.width \/ pos[2] < 0 \/ pos[2] >= g.height)

GridIndex(g, pos) == (pos[2] * g.width) + pos[1]

\* get_at: the value, or none when out of bounds
GridGet(g, pos, none) == IF GridInBounds(g, pos) THEN g.data[GridIndex(g, pos)] ELSE none

\* set_at: ignored when out of bounds
GridSet(g, pos, v) ==
    IF GridInBounds(g, pos) THEN [g EXCEPT !.data[GridIndex(g, pos)] = v] ELSE g

\* InternalCellData
ICEmpty == [tag |-> "Empty", id |-> 0]
ICBomb(id) == [tag |-> "Bomb", id |-> id]
ICExplosion(id) == [tag |-> "Explosion", id |-> id]
ICNone == [tag |-> "None", id |-> 0]

\* Option<Timestamp> of the danger map: no timestamp
NoTs == -1

----------------------------------------------------------------------------
(* Zones, engine/worldzone.rs *)

ZoneWidth == 16
ZoneHeight == 16

\* quota_factor 0.2 of World::new: (area as f64 * 0.2) as i32
Quota(zw, zh) == (zw * zh) \div 5

CeilDiv(a, b) == (a + b - 1) \div b

\* WorldZoneData::new: zones row by row, edge zones take the remainder
WorldZoneDataNew(zone_width, zone_height, width_in_tiles, height_in_tiles) ==
    LET across == IF width_in_tiles > 0 THEN CeilDiv(width_in_tiles, zone_width) ELSE 0
        down == IF height_in_tiles > 0 THEN CeilDiv(height_in_tiles, zone_height) ELSE 0
        zone(i) ==
            LET zx == (i % across) * zone_width
                zy == (i \div across) * zone_height
                zw == Min(width_in_tiles - zx, zone_width)
                zh == Min(height_in_tiles - zy, zone_height)
            IN [position |-> MapPosition(zx, zy), size |-> <<zw, zh>>,
                num_blocks |-> 0, block_quota |-> Quota(zw, zh)]
    IN [zone_size |-> <<zone_width, zone_height>>,
        zones_across |-> IF down > 0 THEN across ELSE 0,
        zones |-> [i \in 0 .. (across * down - 1) |-> zone(i)]]

\* ZonePosition::from_map_position and get_zone_index: -1 when there is no such zone
map_to_zone_index(z, pos) ==
    LET zx == pos[1] \div z.zone_size[1]
        zy == pos[2] \div z.zone_size[2]
        index == (zy * z.zones_across) + zx
    IN IF index \in DOMAIN z.zones THEN index ELSE -1

add_block_at_map_xy(z, pos) ==
    LET zi == map_to_zone_index(z, pos)
    IN IF zi # -1 THEN [z EXCEPT !.zones[zi].num_blocks = @ + 1] ELSE z

del_block_at_map_xy(z, pos) ==
    LET zi == map_to_zone_index(z, pos)
    IN IF zi # -1 /\ z.zones[zi].num_blocks > 0
       THEN [z EXCEPT !.zones[zi].num_blocks = @ - 1]
       ELSE z

quota_reached(zone) == zone.num_blocks >= zone.block_quota

----------------------------------------------------------------------------
(* World, engine/world.rs *)

\* WorldSize::new: width and height must be odd
WorldSizeNew(width, height) ==
    [map_size |-> <<IF width % 2 = 0 THEN width + 1 ELSE width,
                    IF height % 2 = 0 THEN height + 1 ELSE height>>,
     tile_size |-> <<32, 32>>]

MapW(w) == w.sizes.map_size[1]
MapH(w) == w.sizes.map_size[2]

get_cell(w, pos) ==
    LET v == GridGet(w.data, pos, NoCell)
    IN IF v = NoCell THEN NoCell ELSE CellTypeFrom(v)

\* set_cell that forgets the block it overwrites
set_cell_keeps_count(w, pos, value) ==
    [w EXCEPT !.zones = IF value = Mystery THEN add_block_at_map_xy(@, pos) ELSE @,
              !.data = GridSet(w.data, pos, value)]

set_cell(w, pos, value) ==
    LET z1 == IF get_cell(w, pos) = Mystery THEN del_block_at_map_xy(w.zones, pos) ELSE w.zones
        z2 == IF value = Mystery THEN add_block_at_map_xy(z1, pos) ELSE z1
    IN [w EXCEPT !.zones = z2, !.data = GridSet(w.data, pos, value)]

\* set_cell applied to every position of a set (the order does not matter
\* for one value)
RECURSIVE SetCells(_, _, _)
SetCells(w, S, value) ==
    IF S = {} THEN w
    ELSE LET p == CHOOSE q \in S : TRUE
         IN SetCells(set_cell(w, p, value), S \ {p}, value)

\* the positions World::new writes Wall to: the border of map_size and, on
\* every second row, every second column
NewWallPositions(mw, mh) ==
    {MapPosition(x, 0) : x \in 0 .. mw - 1} \cup
    {MapPosition(x, mh - 1) : x \in 0 .. mw - 1} \cup
    {MapPosition(0, y) : y \in 0 .. mh - 1} \cup
    {MapPosition(mw - 1, y) : y \in 0 .. mh - 1} \cup
    {MapPosition(x * 2, y) : x \in 1 .. ((mw \div 2) - 1),
                             y \in {yy \in 0 .. mh - 1 : yy % 2 = 0}}

\* World::new: the arrays and the zones are sized with the requested width
\* and height, the walls are placed with the bumped map_size
WorldNew(width, height) ==
    LET w0 == [sizes |-> WorldSizeNew(width, height),
               data |-> GridNew(width, height, Empty),
               data_internal |-> GridNew(width, height, ICEmpty),
               data_mob |-> GridNew(width, height, NoTs),
               zones |-> WorldZoneDataNew(ZoneWidth, ZoneHeight, width, height)]
    IN SetCells(w0, NewWallPositions(MapW(w0), MapH(w0)), Wall)

\* the offsets -radius ..= radius in scan order
OffsetRange(radius) == [i \in 1 .. (2 * radius + 1) |-> i - radius - 1]

\* FirstEmpty that takes the first position without looking at its cell
FirstEmpty_unchecked(w, cand) == IF cand = <<>> THEN <<>> ELSE Head(cand)

\* first position of a sequence whose cell is Empty, <<>> when there is none
RECURSIVE FirstEmpty(_, _)
FirstEmpty(w, cand) ==
    IF cand = <<>> THEN <<>>
    ELSE IF get_cell(w, Head(cand)) = Empty THEN Head(cand)
    ELSE FirstEmpty(w, Tail(cand))

\* the positions one ring of find_nearest_blank tests, in the order it tests
\* them: top, bottom, left, right (the right edge is written with -radius)
RingCandidates(w, pos, radius) ==
    LET offs == OffsetRange(radius)
        xok(o) == ~(pos[1] + o <= 0 \/ pos[1] + o >= MapW(w) - 1)
        yok(o) == ~(pos[2] + o <= 0 \/ pos[2] + o >= MapH(w) - 1)
        xs == SelectSeq(offs, xok)
        ys == SelectSeq(offs, yok)
        top == IF pos[2] - radius > 0
               THEN [i \in 1 .. Len(xs) |-> PosAdd(pos, PositionOffset(xs[i], -radius))]
               ELSE <<>>
        bottom == IF pos[2] + radius < MapH(w) - 1
                  THEN [i \in 1 .. Len(xs) |-> PosAdd(pos, PositionOffset(xs[i], radius))]
                  ELSE <<>>
        left == IF pos[1] - radius > 0
                THEN [i \in 1 .. Len(ys) |-> PosAdd(pos, PositionOffset(-radius, ys[i]))]
                ELSE <<>>
        right == IF pos[1] + radius < MapW(w) - 1
                 THEN [i \in 1 .. Len(ys) |-> PosAdd(pos, PositionOffset(-radius, ys[i]))]
                 ELSE <<>>
    IN top \o bottom \o left \o right

\* for radius in 1..20 (the upper end is excluded)
MaxRadius == 19

RECURSIVE ScanRings(_, _, _)
ScanRings(w, pos, radius) ==
    IF radius > MaxRadius THEN MapPosition(1, 1)
    ELSE LET p == FirstEmpty(w, RingCandidates(w, pos, radius))
         IN IF p # <<>> THEN p ELSE ScanRings(w, pos, radius + 1)

\* find_nearest_blank that does not look at the cell
find_nearest_blank_unchecked(w, pos) == pos

find_nearest_blank(w, pos) ==
    IF get_cell(w, pos) = Empty THEN pos ELSE ScanRings(w, pos, 1)

\* is_nearby_map_entity that finds no entity nearby
is_nearby_map_entity_none(pos, entities, range) == FALSE

is_nearby_map_entity(pos, entities, range) ==
    \E e \in entities : is_within_range(e, pos, range)

\* the positions of one zone
ZonePositions(zone) ==
    {MapPosition(zone.position[1] + dx, zone.position[2] + dy) :
        dx \in 0 .. zone.size[1] - 1, dy \in 0 .. zone.size[2] - 1}

\* add_mob_spawners: the four slots in loop order (py outer, px inner)
SpawnerSlots(w) ==
    [k \in 1 .. 4 |->
        MapPosition((MapW(w) * (2 * ((k - 1) % 2) + 1)) \div 4,
                    (MapH(w) * (2 * ((k - 1) \div 2) + 1)) \div 4)]

\* the positions "Try a random location" can draw: gen_range(1, width - 2)
\* and gen_range(1, height - 2), upper end excluded
SpawnerRetryDraws(w) ==
    {MapPosition(bx, by) : bx \in 1 .. MapW(w) - 3, by \in 1 .. MapH(w) - 3}

\* add_mob_spawners: every outcome [world, spawners] the random retries
\* allow when the retry draws from draws
RECURSIVE SpawnerOutcomes(_, _, _, _)
SpawnerOutcomes(w, spawners, k, draws) ==
    IF k > 4 THEN {[world |-> w, spawners |-> spawners]}
    ELSE LET blank == find_nearest_blank(w, SpawnerSlots(w)[k])
         IN IF blank # MapPosition(1, 1)
            THEN SpawnerOutcomes(set_cell(w, blank, MobSpawner), Append(spawners, blank),
                                 k + 1, draws)
            ELSE UNION {IF find_nearest_blank(w, d) = MapPosition(1, 1)
                        THEN SpawnerOutcomes(w, spawners, k + 1, draws)
                        ELSE SpawnerOutcomes(set_cell(w, find_nearest_blank(w, d), MobSpawner),
                                             Append(spawners, find_nearest_blank(w, d)),
                                             k + 1, draws)
                        : d \in SpawnerRetryDraws(w) \cap draws}

add_mob_spawners(w, draws) == SpawnerOutcomes(w, <<>>, 1, draws)

\* populate_initial: the sets of new blocks the random draws allow.  The
\* world is not changed while the draws are made, so a draw d yields
\* find_nearest_blank(d) on the world as it was; (1,1) and positions near an
\* entity are skipped, a zone makes quota() draws.
InitialBlockSets(w, map_positions, draws) ==
    LET zs == w.zones.zones
        hit(zi) == {find_nearest_blank(w, d) : d \in ZonePositions(zs[zi]) \cap draws}
        good(zi) == {b \in hit(zi) : b # MapPosition(1, 1)
                                     /\ ~is_nearby_map_entity(b, map_positions, 4)}
        \* a zone may add nothing when one of its draws is skipped or repeats
        \* a block another zone already chose
        choice(zi) == {S \in SUBSET good(zi) : Cardinality(S) <= zs[zi].block_quota}
        pick == [DOMAIN zs -> SUBSET UNION {good(z) : z \in DOMAIN zs}]
    IN {UNION {f[zi] : zi \in DOMAIN zs} :
            f \in {g \in pick : \A zi \in DOMAIN zs :
                      /\ g[zi] \in choice(zi)
                      /\ (g[zi] = {} =>
                            \/ zs[zi].block_quota = 0
                            \/ hit(zi) # good(zi)
                            \/ hit(zi) = {}
                            \/ \E z2 \in DOMAIN zs : z2 < zi /\ good(zi) \cap g[z2] # {})}}

populate_initial(w, blocks) == SetCells(w, blocks, Mystery)

\* zone indices sorted by (quota - num_blocks) descending, ties in index
\* order (sorted_by is stable)
RECURSIVE SortByShortfall(_, _)
SortByShortfall(zs, rest) ==
    IF rest = {} THEN <<>>
    ELSE LET short(i) == zs[i].block_quota - zs[i].num_blocks
             best == CHOOSE i \in rest :
                        \A j \in rest : short(i) > short(j) \/ (short(i) = short(j) /\ i <= j)
         IN <<best>> \o SortByShortfall(zs, rest \ {best})

zone_iter_sorted_by_shortfall(z) == SortByShortfall(z.zones, DOMAIN z.zones)

\* populate_blocks: the outcomes of the loop over the sorted zones from
\* index k on: a set of new_blocks sets (each empty or one position)
RECURSIVE PopulateFrom(_, _, _, _, _)
PopulateFrom(w, order, k, map_positions, draws) ==
    IF k > Len(order) THEN {{}}
    ELSE LET zone == w.zones.zones[order[k]]
         IN IF quota_reached(zone) THEN {{}}
            ELSE IF ZonePositions(zone) \cap draws = {} THEN {{}}
            ELSE UNION {LET blank == find_nearest_blank(w, d)
                        IN IF blank = MapPosition(1, 1)
                           THEN PopulateFrom(w, order, k + 1, map_positions, draws)
                           ELSE IF ~is_nearby_map_entity(blank, map_positions, 4)
                           THEN {{blank}}
                           ELSE PopulateFrom(w, order, k + 1, map_positions, draws)
                        : d \in ZonePositions(zone) \cap draws}

PopulateBlockSets(w, map_positions, draws) ==
    PopulateFrom(w, zone_iter_sorted_by_shortfall(w.zones), 1, map_positions, draws)

populate_blocks(w, blocks) == SetCells(w, blocks, Mystery)

----------------------------------------------------------------------------
(* Item stores, tools/itemstore.rs *)

\* ItemStore::default: no items, the first id is 1
ItemStoreNew == [items |-> <<>>, next_id |-> 1]

\* ItemStore::add: the item gets next_id, which is then bumped
StoreAdd(store, item) ==
    LET id == store.next_id
    IN [items |-> [i \in DOMAIN store.items \cup {id} |->
                      IF i = id THEN [item EXCEPT !.id = id] ELSE store.items[i]],
        next_id |-> store.next_id + 1]

StoreHas(store, id) == id \in DOMAIN store.items

\* ItemStore::retain on the active flag
StoreRetainActive(store) ==
    [store EXCEPT !.items = [i \in {j \in DOMAIN store.items : store.items[j].active} |->
                                store.items[i]]]

----------------------------------------------------------------------------
(* Danger map, World::set_mob_data / get_mob_data / clear_mob_data *)

get_mob_data(w, pos) == GridGet(w.data_mob, pos, NoTs)

\* only overwrite the timestamp if the new one is sooner
set_mob_data(w, pos, timestamp) ==
    LET ts == get_mob_data(w, pos)
    IN IF ts # NoTs
       THEN IF timestamp < ts
            THEN [w EXCEPT !.data_mob = GridSet(w.data_mob, pos, timestamp)]
            ELSE w
       ELSE [w EXCEPT !.data_mob = GridSet(w.data_mob, pos, timestamp)]

clear_mob_data(w, pos) == [w EXCEPT !.data_mob = GridSet(w.data_mob, pos, NoTs)]

get_internal_cell(w, pos) == GridGet(w.data_internal, pos, ICNone)

clear_internal_cell(w, pos) ==
    [w EXCEPT !.data_internal = GridSet(w.data_internal, pos, ICEmpty)]

\* up, down, left, right: the order both traversals walk the rays in
RayOffsets == <<PositionOffset(0, -1), PositionOffset(0, 1),
                PositionOffset(-1, 0), PositionOffset(1, 0)>>

\* the cell types an explosion passes through
PassableForBlast == {Empty, ItemBomb, ItemRange, ItemRandom, MobSpawner}

----------------------------------------------------------------------------
(* World::update_bomb_path *)

\* one ray of update_bomb_path from distance dist on; acc carries seen,
\* bombs_to_follow and path_cells.  A position already seen is skipped
\* (continue), a Bomb cell is followed and the ray goes on, Wall, Mystery
\* and out-of-map end the ray.
RECURSIVE PathRay(_, _, _, _, _)
PathRay(w, b, off, dist, acc) ==
    IF dist > b.range THEN acc
    ELSE LET pos == PosAdd(b.position, OffMul(off, dist))
         IN IF pos \in acc.seen THEN PathRay(w, b, off, dist + 1, acc)
            ELSE LET acc1 == [acc EXCEPT !.seen = @ \cup {pos}]
                     ct == get_cell(w, pos)
                 IN IF ct = Bomb
                    THEN LET ic == get_internal_cell(w, pos)
                         IN PathRay(w, b, off, dist + 1,
                                IF ic.tag = "Bomb"
                                THEN [acc1 EXCEPT !.queue = Append(@, ic.id)]
                                ELSE acc1)
                    ELSE IF ct \in PassableForBlast
                    THEN PathRay(w, b, off, dist + 1,
                                 [acc1 EXCEPT !.path = Append(@, pos)])
                    ELSE acc1

RECURSIVE PathRays(_, _, _, _)
PathRays(w, b, k, acc) ==
    IF k > Len(RayOffsets) THEN acc
    ELSE PathRays(w, b, k + 1, PathRay(w, b, RayOffsets[k], 1, acc))

\* the while loop over bombs_to_follow
RECURSIVE FollowBombs(_, _, _)
FollowBombs(w, store, acc) ==
    IF acc.queue = <<>> THEN acc
    ELSE LET bomb_id == Head(acc.queue)
             acc1 == [acc EXCEPT !.queue = Tail(@)]
         IN IF StoreHas(store, bomb_id)
            THEN LET b == store.items[bomb_id]
                     acc2 == [acc1 EXCEPT !.earliest = Min(@, b.timestamp)]
                 IN FollowBombs(w, store, PathRays(w, b, 1, acc2))
            ELSE FollowBombs(w, store, acc1)

\* set_mob_data on every path cell, in order
RECURSIVE SetMobDataAll(_, _, _)
SetMobDataAll(w, cells, ts) ==
    IF cells = <<>> THEN w
    ELSE SetMobDataAll(set_mob_data(w, Head(cells), ts), Tail(cells), ts)

update_bomb_path(w, bid, store) ==
    IF ~StoreHas(store, bid) THEN w
    ELSE LET b == store.items[bid]
             acc == FollowBombs(w, store,
                        [queue |-> <<bid>>, seen |-> {b.position},
                         earliest |-> b.timestamp, path |-> <<>>])
         IN SetMobDataAll(w, acc.path, acc.earliest)

----------------------------------------------------------------------------
(* World::add_bomb / add_explosion / clear_explosion_cell *)

\* returns the world and the bomb store
add_bomb(w, bomb, store) ==
    LET pos == bomb.position
        id == store.next_id
        store1 == StoreAdd(store, bomb)
        w1 == set_cell(w, pos, Bomb)
        w2 == update_bomb_path(w1, id, store1)
    IN [world |-> [w2 EXCEPT !.data_internal = GridSet(w2.data_internal, pos, ICBomb(id))],
        bombs |-> store1]

\* returns the world and the explosion store
add_explosion(w, explosion, store) ==
    LET pos == explosion.position
        id == store.next_id
    IN [world |-> [w EXCEPT !.data_internal = GridSet(w.data_internal, pos, ICExplosion(id))],
        explosions |-> StoreAdd(store, explosion)]

clear_explosion_cell(w, explosion) ==
    LET pos == explosion.position
        w1 == clear_internal_cell(w, pos)
        ts == get_mob_data(w1, pos)
    IN IF ts # NoTs /\ explosion.timestamp >= ts THEN clear_mob_data(w1, pos) ELSE w1

----------------------------------------------------------------------------
(* Bombs and explosions, engine/bomb.rs, engine/explosion.rs *)

\* BombTime::millis returns the stored value, which is in seconds
BombTimeMillis(bomb_time) == bomb_time \div 1000

\* Bomb::new: the timestamp is Timestamp::new() + player.bomb_time()
BombNew(player, position, t) ==
    [id |-> 0, pid |-> player.id, active |-> TRUE, position |-> position,
     remaining |-> player.bomb_time, range |-> player.range,
     timestamp |-> t + BombTimeMillis(player.bomb_time)]

\* a tick that stops the fuse before it runs out
BombTick_stalls(b, dt) ==
    IF b.remaining - dt <= 0 THEN b ELSE [b EXCEPT !.remaining = @ - dt]

\* Bomb::tick
BombTick(b, dt) ==
    IF b.remaining - dt <= 0
    THEN [b EXCEPT !.remaining = 0, !.active = FALSE]
    ELSE [b EXCEPT !.remaining = @ - dt]

\* an explosion lives 0.5 s
ExplosionTime == 500
\* and stops being harmful when 0.3 s or less remain
HarmlessAt == 300

\* Explosion::new(Some(bomb), position) / Explosion::new(None, position)
ExplosionNew(pid, position, t) ==
    [id |-> 0, pid |-> pid, active |-> TRUE, position |-> position,
     remaining |-> ExplosionTime, harmful |-> TRUE, timestamp |-> t]

\* Explosion::update
ExplosionUpdate(e, dt) ==
    LET r == e.remaining - dt
    IN [e EXCEPT !.remaining = IF r <= 0 THEN 0 ELSE r,
                 !.harmful = IF r <= HarmlessAt THEN FALSE ELSE @,
                 !.active = IF r <= 0 THEN FALSE ELSE @]

\* the item a Mystery block turns into for the random number r (in 1/100)
MysteryItem(r) ==
    IF r > 90 THEN ItemBomb
    ELSE IF r > 80 THEN ItemRange
    ELSE IF r > 50 THEN ItemRandom
    ELSE Empty

----------------------------------------------------------------------------
(* World::explode_bomb_path *)

\* st carries world, explosions and bombs_cascade
BlastAt(st, bomb, pos, t) ==
    LET r == add_explosion(st.world, ExplosionNew(bomb.pid, pos, t), st.explosions)
    IN [st EXCEPT !.world = r.world, !.explosions = r.explosions]

\* one ray from distance dist on; roll gives the random number drawn for a
\* Mystery cell
RECURSIVE BlastRay(_, _, _, _, _, _)
BlastRay(st, bomb, off, dist, roll, t) ==
    IF dist > bomb.range THEN st
    ELSE LET pos == PosAdd(bomb.position, OffMul(off, dist))
             ct == get_cell(st.world, pos)
         IN IF ct = Bomb
            THEN LET ic == get_internal_cell(st.world, pos)
                 IN IF ic.tag = "Bomb"
                    THEN [st EXCEPT !.cascade = Append(@, ic.id)]
                    ELSE BlastAt(st, bomb, pos, t)
            ELSE IF ct \in {ItemBomb, ItemRange, ItemRandom}
            THEN LET st1 == BlastAt(st, bomb, pos, t)
                 IN BlastRay([st1 EXCEPT !.world = set_cell(@, pos, Empty)],
                             bomb, off, dist + 1, roll, t)
            ELSE IF ct \in {Empty, MobSpawner}
            THEN BlastRay(BlastAt(st, bomb, pos, t), bomb, off, dist + 1, roll, t)
            ELSE IF ct = Mystery
            THEN LET st1 == BlastAt(st, bomb, pos, t)
                 IN [st1 EXCEPT !.world = set_cell(@, pos, MysteryItem(roll[pos]))]
            ELSE st

RECURSIVE BlastRays(_, _, _, _, _)
BlastRays(st, bomb, k, roll, t) ==
    IF k > Len(RayOffsets) THEN st
    ELSE BlastRays(BlastRay(st, bomb, RayOffsets[k], 1, roll, t), bomb, k + 1, roll, t)

\* explode_bomb_path that sends out no rays
explode_bomb_path_centre(w, bomb, store, roll, t) ==
    BlastAt([world |-> w, explosions |-> store, cascade |-> <<>>], bomb, bomb.position, t)

\* returns world, explosions and the cascade of this bomb
explode_bomb_path(w, bomb, store, roll, t) ==
    BlastRays(BlastAt([world |-> w, explosions |-> store, cascade |-> <<>>],
                      bomb, bomb.position, t),
              bomb, 1, roll, t)

----------------------------------------------------------------------------
(* Player counters used by the world, engine/player.rs *)

has_bomb_remaining(p) == p.cur_bombs < p.max_bombs

bomb_placed(p) == [p EXCEPT !.cur_bombs = @ + 1]

bomb_exploded(p) == IF p.cur_bombs > 0 THEN [p EXCEPT !.cur_bombs = @ - 1] ELSE p

----------------------------------------------------------------------------
(* World::explode_bomb *)

\* g carries world, bombs, explosions, players, the queue bombs_to_explode
\* and the list of the bomb ids detonated (history)
RECURSIVE ExplodeLoop(_, _, _)
ExplodeLoop(g, roll, t) ==
    IF g.queue = <<>> THEN g
    ELSE LET bomb_id == Head(g.queue)
             g1 == [g EXCEPT !.queue = Tail(@)]
         IN IF ~StoreHas(g.bombs, bomb_id) THEN ExplodeLoop(g1, roll, t)
            ELSE LET b == g.bombs.items[bomb_id]
                     w1 == IF get_cell(g.world, b.position) = Bomb
                           THEN clear_internal_cell(set_cell(g.world, b.position, Empty),
                                                    b.position)
                           ELSE g.world
                     r == explode_bomb_path(w1, b, g.explosions, roll, t)
                     ps == IF b.pid \in DOMAIN g.players
                           THEN [g.players EXCEPT ![b.pid] = bomb_exploded(@)]
                           ELSE g.players
                 IN ExplodeLoop([g1 EXCEPT !.world = r.world,
                                           !.explosions = r.explosions,
                                           !.players = ps,
                                           !.bombs.items[bomb_id].active = FALSE,
                                           !.queue = @ \o r.cascade,
                                           !.detonated = Append(@, bomb_id)],
                                roll, t)

explode_bomb(g, bomb_id, roll, t) == ExplodeLoop([g EXCEPT !.queue = <<bomb_id>>], roll, t)

----------------------------------------------------------------------------
(* Player, engine/player.rs *)

Joining == "Joining"
Active == "Active"
Dying == "Dying"
Dead == "Dead"

PlayerStates == {Joining, Active, Dying, Dead}

WalkThroughBombs == "WALKTHROUGHBOMBS"
Invincible == "INVINCIBLE"

SpeedUp == 0
SlowDown == 1
Invincibility == 2

\* Action::new / Action::clear
ActionClear == [x |-> 0, y |-> 0, fire |-> FALSE]

\* bomb_time 3.0 s, kill_timer 2.0 s, set_invincible 5.0 s
InitialBombTime == 3000
KillTime == 2000
InvincibleTime == 5000

\* Player::new
PlayerNew(id) ==
    [id |-> id, state |-> Joining, position |-> MapPosition(0, 0),
     action |-> ActionClear, frame_list |-> <<>>, speed |-> 200,
     range |-> 1, bomb_time |-> InitialBombTime, max_bombs |-> 1, cur_bombs |-> 0,
     flags |-> <<>>, score |-> 0, effects |-> <<>>, kill_timer |-> KillTime]

is_dead(p) == p.state = Dead
is_active(p) == p.state = Active
has_joined(p) == p.state # Joining

InSeq(sq, v) == \E i \in 1 .. Len(sq) : sq[i] = v

has_flag(p, flag) == InSeq(p.flags, flag)

add_flag(p, flag) == [p EXCEPT !.flags = Append(@, flag)]

\* del_flag that removes every occurrence
del_flag_all(p, flag) == [p EXCEPT !.flags = SelectSeq(@, LAMBDA f : f # flag)]

\* del_flag removes the first occurrence
del_flag(p, flag) ==
    IF ~InSeq(p.flags, flag) THEN p
    ELSE LET i == CHOOSE k \in 1 .. Len(p.flags) :
                     p.flags[k] = flag /\ \A j \in 1 .. k - 1 : p.flags[j] # flag
         IN [p EXCEPT !.flags = SubSeq(@, 1, i - 1) \o SubSeq(@, i + 1, Len(@))]

\* Player::terminate, as written
terminate(p) == [p EXCEPT !.state = Dying]

EffectNew(effect_type, duration) ==
    [effect_type |-> effect_type, remaining |-> duration, active |-> TRUE]

EffectTick(e, dt) ==
    [e EXCEPT !.remaining = @ - dt, !.active = IF e.remaining - dt <= 0 THEN FALSE ELSE @]

add_effect(p, effect) ==
    LET p1 == IF effect.effect_type = SpeedUp THEN [p EXCEPT !.speed = @ + 50]
              ELSE IF effect.effect_type = SlowDown THEN [p EXCEPT !.speed = @ - 50]
              ELSE add_flag(p, Invincible)
    IN [p1 EXCEPT !.effects = Append(@, effect)]

undo_effect(p, effect) ==
    IF effect.effect_type = SpeedUp THEN [p EXCEPT !.speed = @ - 50]
    ELSE IF effect.effect_type = SlowDown THEN [p EXCEPT !.speed = @ + 50]
    ELSE del_flag(p, Invincible)

\* set_invincible that adds no effect
set_invincible_not(p) == p

set_invincible(p) == add_effect(p, EffectNew(Invincibility, InvincibleTime))

\* the effects loop of update_with_temp_action: the cache is popped from the
\* back, every effect is ticked, kept when still active and undone otherwise
RECURSIVE TickEffects(_, _, _)
TickEffects(p, cache, dt) ==
    IF cache = <<>> THEN p
    ELSE LET x == EffectTick(cache[Len(cache)], dt)
             rest == SubSeq(cache, 1, Len(cache) - 1)
         IN IF x.active
            THEN TickEffects([p EXCEPT !.effects = Append(@, x)], rest, dt)
            ELSE TickEffects(undo_effect(p, x), rest, dt)

\* impl CanPass for Player
can_pass(p, position, w) ==
    LET ct == get_cell(w, position)
    IN IF ct \in {Wall, Mystery} THEN FALSE
       ELSE IF ct = Bomb THEN has_flag(p, WalkThroughBombs)
       ELSE TRUE

\* fix_position_and_tmpaction for a player standing on the centre of its
\* tile: a blocked direction is removed from the action
fix_position_and_tmpaction(p, a, map_pos, w) ==
    LET ax == IF a.x # 0 /\ ~can_pass(p, PosAdd(map_pos, PositionOffset(a.x, 0)), w)
              THEN 0 ELSE a.x
        ay == IF a.y # 0 /\ ~can_pass(p, PosAdd(map_pos, PositionOffset(0, a.y)), w)
              THEN 0 ELSE a.y
    IN [a EXCEPT !.x = ax, !.y = ay]

\* Player::update.  A Dying player only runs its kill timer.  Otherwise the
\* player is taken out of a Wall, the effects are ticked and the player moves
\* along one axis (x first) by speed * delta_time, here one tile.
update(p, w, dt) ==
    IF p.state = Dying
    THEN IF p.kill_timer - dt <= 0
         THEN [p EXCEPT !.kill_timer = @ - dt, !.state = Dead]
         ELSE [p EXCEPT !.kill_timer = @ - dt]
    ELSE IF is_dead(p) THEN p
    ELSE LET map_pos == p.position
             p1 == IF get_cell(w, map_pos) = Wall
                   THEN [p EXCEPT !.position = find_nearest_blank(w, map_pos)]
                   ELSE p
             a1 == fix_position_and_tmpaction(p1, p1.action, map_pos, w)
             a2 == IF a1.x # 0 THEN [a1 EXCEPT !.y = 0] ELSE a1
             p2 == TickEffects([p1 EXCEPT !.effects = <<>>], p1.effects, dt)
         IN [p2 EXCEPT !.position = PosAdd(@, PositionOffset(a2.x, a2.y))]

\* get_spawn_point: the points the random attempts can return when they
\* draw from draws, and (1,1) when an attempt can fail
CountEmptyAround(w, pos) ==
    Cardinality({o \in {<<-1, 0>>, <<1, 0>>, <<0, -1>>, <<0, 1>>} :
                    get_cell(w, PosAdd(pos, o)) = Empty})

SpawnPoints(w, draws) ==
    LET found == {find_nearest_blank(w, d) : d \in draws}
        good == {q \in found : CountEmptyAround(w, q) >= 2}
    IN good \cup (IF good # found \/ found = {} THEN {MapPosition(1, 1)} ELSE {})

\* Player::got_item.  rnd holds the random numbers an ItemRandom draws.
\* Returns the player and whether the item was taken.
got_item(p, item, rnd) ==
    IF item = ItemBomb THEN [player |-> [p EXCEPT !.max_bombs = @ + 1], taken |-> TRUE]
    ELSE IF item = ItemRange THEN [player |-> [p EXCEPT !.range = @ + 1], taken |-> TRUE]
    ELSE IF item = ItemRandom
    THEN LET fx == add_effect(p, EffectNew(rnd.effect, rnd.duration))
             q == CASE rnd.r = 0 -> IF p.max_bombs < 6 THEN [p EXCEPT !.max_bombs = @ + 1] ELSE fx
                    [] rnd.r = 1 -> IF p.max_bombs > 1 THEN [p EXCEPT !.max_bombs = @ - 1] ELSE fx
                    [] rnd.r = 2 -> IF p.range < 8 THEN [p EXCEPT !.range = @ + 1] ELSE fx
                    [] rnd.r = 3 -> IF p.range > 1 THEN [p EXCEPT !.range = @ - 1] ELSE fx
                    [] rnd.r = 4 -> IF has_flag(p, WalkThroughBombs)
                                    THEN del_flag(p, WalkThroughBombs)
                                    ELSE add_flag(p, WalkThroughBombs)
                    [] rnd.r = 5 -> IF p.bomb_time < 4000 THEN [p EXCEPT !.bomb_time = @ + 1000] ELSE fx
                    [] rnd.r = 6 -> IF p.bomb_time > 2000 THEN [p EXCEPT !.bomb_time = @ - 1000] ELSE fx
                    [] rnd.r = 7 -> IF p.score > 100
                                    THEN [p EXCEPT !.score = IF @ > rnd.amount THEN @ - rnd.amount ELSE 0]
                                    ELSE fx
                    [] rnd.r = 8 -> [p EXCEPT !.score = @ + rnd.amount]
                    [] OTHER -> fx
         IN [player |-> q, taken |-> TRUE]
    ELSE [player |-> p, taken |-> FALSE]

----------------------------------------------------------------------------
(* Outbound streams, comms/playercomm.rs *)

MessageKinds == {"SpawnPlayer", "PowerUp", "FrameData", "Dead", "Disconnect", "Pong"}

\* PlayerComm::send on the stream of player pid: the message is queued when
\* the receiving end lives, otherwise the send fails.  log is the record of
\* the history variables sent and before.
SendOk(pid) == links[pid].up

Logged(log, pid, kind) ==
    [sent |-> [log.sent EXCEPT ![pid] = @ \cup {kind}],
     before |-> [log.before EXCEPT ![pid] = @ \cup {<<k, kind>> : k \in log.sent[pid]}]]

\* log after sending the kinds of the sequence ks to pid
RECURSIVE LoggedAll(_, _, _)
LoggedAll(log, pid, ks) ==
    IF ks = <<>> THEN log ELSE LoggedAll(Logged(log, pid, Head(ks)), pid, Tail(ks))

\* the state changes of a player that went through the states of sts
Steps(sts) == {<<sts[i], sts[i + 1]>> : i \in {k \in 1 .. Len(sts) - 1 : sts[k] # sts[k + 1]}}

\* f with the key k removed / restricted to the keys in S
Restrict(f, S) == [k \in S |-> f[k]]

----------------------------------------------------------------------------
(* RustonatorGame::new *)

EmptyWorld == WorldNew(0, 0)

\* The state before RustonatorGame::new has run, for a run with the
\* parameters run
Setup(run) ==
    /\ phase = "new"
    /\ req = run
    /\ world = EmptyWorld
    /\ mob_spawners = <<>>
    /\ mobs = ItemStoreNew
    /\ players = <<>>
    /\ bombs = ItemStoreNew
    /\ explosions = ItemStoreNew
    /\ now = 0
    /\ ticks = 0
    /\ delta_time = 0
    /\ next_player_id = 0
    /\ connect_queue = <<>>
    /\ links = <<>>
    /\ add_blocks_timer = 0
    /\ sent = <<>>
    /\ before = <<>>
    /\ moves = <<>>
    /\ last_op = [op |-> "init"]

Init == Setup(DuelRun)

\* World::new, add_mob_spawners, populate_initial(&[])
NewGame ==
    /\ phase = "new"
    /\ \E so \in add_mob_spawners(WorldNew(req.size[1], req.size[2]), req.retry_draws) :
         \E blocks \in InitialBlockSets(so.world, {}, req.initial_draws) :
            /\ world' = populate_initial(so.world, blocks)
            /\ mob_spawners' = so.spawners
    /\ phase' = "idle"
    /\ last_op' = [op |-> "new"]
    /\ UNCHANGED <<req, mobs, players, bombs, explosions, now, ticks, delta_time, next_player_id,
                   connect_queue, links, add_blocks_timer, sent, before, moves>>

----------------------------------------------------------------------------
(* Connections: the accept loop and the per-connection tasks *)

EventConnected(pid) == [kind |-> "Connected", pid |-> pid]
EventDisconnected(pid) == [kind |-> "Disconnected", pid |-> pid]

\* the accept loop takes a connection: the next player id is issued and the
\* PlayerComm is handed to the scheduler
Accept ==
    /\ phase = "idle"
    /\ next_player_id < req.players
    /\ ticks \in req.accept[next_player_id]
    /\ LET pid == next_player_id
       IN /\ next_player_id' = pid + 1
          /\ connect_queue' = Append(connect_queue, EventConnected(pid))
          /\ links' = [k \in DOMAIN links \cup {pid} |->
                          IF k = pid
                          THEN [up |-> TRUE, taken |-> 0, queue |-> <<>>, pongs |-> <<>>,
                                got |-> <<>>, held |-> FALSE, grace |-> 0]
                          ELSE links[k]]
          /\ sent' = [k \in DOMAIN sent \cup {pid} |-> IF k = pid THEN {} ELSE sent[k]]
          /\ before' = [k \in DOMAIN before \cup {pid} |-> IF k = pid THEN {} ELSE before[k]]
          /\ moves' = [k \in DOMAIN moves \cup {pid} |-> IF k = pid THEN {} ELSE moves[k]]
          /\ last_op' = [op |-> "accept", pid |-> pid]
    /\ UNCHANGED <<phase, req, world, mob_spawners, mobs, players, bombs, explosions, now, ticks,
                   delta_time, add_blocks_timer>>

\* on reader / writer exit a Disconnected(id) event is pushed to the
\* scheduler's player-connect queue
push_disconnected(queue, pid) == Append(queue, EventDisconnected(pid))

\* process_websocket returns (the socket closed): both ends of the
\* connection's queues are dropped and Disconnected(id) is pushed.
\* This happens between two iterations of game_loop or inside one, after
\* the inputs were read and before the players are served.
LinkExit(pid) ==
    /\ phase \in {"idle", "players"}
    /\ pid \in DOMAIN links
    /\ links[pid].up
    /\ Cardinality({k \in DOMAIN links : ~links[k].up}) < req.exits
    /\ links' = [links EXCEPT ![pid].up = FALSE]
    /\ connect_queue' = push_disconnected(connect_queue, pid)
    /\ last_op' = [op |-> "exit", pid |-> pid]
    /\ UNCHANGED <<phase, req, world, mob_spawners, mobs, players, bombs, explosions, now, ticks,
                   delta_time, next_player_id, add_blocks_timer, sent, before, moves>>

----------------------------------------------------------------------------
(* player_connect_events *)

player_connect_events(ps, queue) ==
    IF queue = <<>> THEN ps
    ELSE LET x == Head(queue)
         IN IF x.kind = "Connected"
            THEN [k \in DOMAIN ps \cup {x.pid} |-> IF k = x.pid THEN PlayerNew(x.pid) ELSE ps[k]]
            ELSE Restrict(ps, DOMAIN ps \ {x.pid})

----------------------------------------------------------------------------
(* process_player_inputs, Player::handle_player_input / handle_player_join *)

\* the next message of a client that sends a fixed sequence, if one is left
Scripted(pid) ==
    IF links[pid].taken >= Len(req.script[pid]) THEN {}
    ELSE {req.script[pid][links[pid].taken + 1]}

\* PlayerComm::recv_one on the inbound queue of a connection whose sending
\* side is up or gone: two tries, a Ping is answered with a Pong of the same
\* payload and the next try follows. The result, the queue that is left and
\* the payloads of the Pongs sent
RECURSIVE recv_tries(_, _, _, _)
recv_tries(queue, up, pongs, tries) ==
    IF tries = 0 THEN [result |-> MsgNone, queue |-> queue, pongs |-> pongs]
    ELSE IF queue = <<>>
    THEN [result |-> IF up THEN MsgNone ELSE MsgErr, queue |-> queue, pongs |-> pongs]
    ELSE IF Head(queue).tag = "Ping"
    THEN IF up
         THEN recv_tries(Tail(queue), up, Append(pongs, Head(queue).payload), tries - 1)
         ELSE [result |-> MsgErr, queue |-> Tail(queue), pongs |-> pongs]
    ELSE [result |-> Head(queue), queue |-> Tail(queue), pongs |-> pongs]

\* recv_one that hands out a message and throws away what waits behind it
recv_one_drains(queue, up) == [recv_tries(queue, up, <<>>, 2) EXCEPT !.queue = <<>>]

recv_one(queue, up) == recv_tries(queue, up, <<>>, 2)

\* the tick from which the clients of the run do not fire any more
FireUntil == IF "fire_until" \in DOMAIN req THEN req.fire_until ELSE req.ticks

\* what recv_one can return for player pid: with the inbound sender dropped
\* and the queue drained it is Err(Disconnected), otherwise nothing or the
\* message the client sent next
Inbound(ps, pid) ==
    IF req.queued THEN {recv_one(links[pid].queue, links[pid].up).result}
    ELSE IF ~links[pid].up THEN {MsgErr}
    ELSE IF req.scripted THEN {MsgNone} \cup Scripted(pid)
    ELSE {MsgNone} \cup {m \in {MsgJoinGame} : req.invalid \/ ps[pid].state = Joining} \cup
         {MsgAction(a) : a \in {c \in req.actions[pid] :
                              /\ (c.fire => bombs.next_id <= req.bombs /\ ticks < FireUntil)
                              /\ (req.invalid \/ ps[pid].state # Joining)}}

\* the frame of an Action message is queued on the player's frame_list
push_frame(p, a) == [p EXCEPT !.frame_list = Append(@, a)]

\* result: the player, whether it stays (Ok(true)), and the messages sent
handle_player_join(p, m, spawn_point) ==
    IF m.tag = "None" THEN [player |-> p, keep |-> TRUE, out |-> <<>>]
    ELSE IF m.tag = "JoinGame"
    THEN LET p1 == [set_invincible(p) EXCEPT !.position = spawn_point, !.state = Active]
         IN IF SendOk(p.id)
            THEN [player |-> p1, keep |-> TRUE, out |-> <<"SpawnPlayer">>]
            ELSE [player |-> p1, keep |-> FALSE, out |-> <<>>]
    ELSE [player |-> terminate(p), keep |-> FALSE, out |-> <<>>]

handle_player_input(p, m, spawn_point) ==
    IF ~has_joined(p) THEN handle_player_join(p, m, spawn_point)
    ELSE LET p1 == [p EXCEPT !.action = ActionClear]
         IN IF m.tag = "None" THEN [player |-> p1, keep |-> TRUE, out |-> <<>>]
            ELSE IF m.tag = "Action"
            THEN [player |-> push_frame([p1 EXCEPT !.action = m.action], m.action),
                  keep |-> TRUE, out |-> <<>>]
            ELSE [player |-> terminate(p1), keep |-> FALSE, out |-> <<>>]

\* process_player_inputs on the player map ps: the handler results
process_player_inputs(ps, msgs, sp) ==
    [pid \in DOMAIN ps |-> handle_player_input(ps[pid], msgs[pid], sp[pid])]

\* The start of an iteration of game_loop: delta_time is measured, one
\* connect event is taken and one message per player is handled
FrameStart ==
    /\ phase = "idle"
    /\ ticks < req.ticks
    /\ \E dt \in req.delta_times :
          /\ delta_time' = dt
          /\ now' = now + dt
          /\ add_blocks_timer' = add_blocks_timer + dt
    /\ ticks' = ticks + 1
    /\ connect_queue' = IF connect_queue = <<>> THEN <<>> ELSE Tail(connect_queue)
    /\ LET ps == player_connect_events(players, connect_queue)
       IN \E msgs \in [DOMAIN ps -> UNION {Inbound(ps, pid) : pid \in DOMAIN ps}] :
          \E sp \in [DOMAIN ps -> SpawnPoints(world, req.spawn_draws)] :
             /\ \A pid \in DOMAIN ps :
                   /\ msgs[pid] \in Inbound(ps, pid)
                   /\ (~(ps[pid].state = Joining /\ msgs[pid].tag = "JoinGame")
                         => sp[pid] = MapPosition(1, 1))
             /\ LET res == process_player_inputs(ps, msgs, sp)
                    stay == {pid \in DOMAIN ps : res[pid].keep}
                IN /\ players' = [pid \in stay |-> res[pid].player]
                   /\ sent' = [pid \in DOMAIN sent |->
                                 IF pid \in DOMAIN ps
                                 THEN sent[pid] \cup {res[pid].out[i] : i \in 1 .. Len(res[pid].out)}
                                 ELSE sent[pid]]
                   /\ before' = [pid \in DOMAIN before |->
                                   IF pid \in DOMAIN ps
                                   THEN before[pid] \cup
                                        {<<k, res[pid].out[i]>> : k \in sent[pid],
                                                                  i \in 1 .. Len(res[pid].out)}
                                   ELSE before[pid]]
                   /\ moves' = [pid \in DOMAIN moves |->
                                  IF pid \in DOMAIN ps
                                  THEN moves[pid] \cup
                                       Steps(<<ps[pid].state, res[pid].player.state>>)
                                  ELSE moves[pid]]
                   /\ links' = [pid \in DOMAIN links |->
                                  LET l ==
                                      IF req.queued /\ pid \in DOMAIN ps
                                      THEN LET r == recv_one(links[pid].queue, links[pid].up)
                                           IN [links[pid] EXCEPT
                                                  !.queue = r.queue,
                                                  !.pongs = @ \o r.pongs,
                                                  !.got = IF r.result.tag \in {"None", "Err"}
                                                          THEN @ ELSE Append(@, r.result)]
                                      ELSE IF req.scripted /\ pid \in DOMAIN ps
                                         /\ msgs[pid].tag \in {"JoinGame", "Action"}
                                      THEN [links[pid] EXCEPT !.taken = @ + 1]
                                      ELSE links[pid]
                                  IN IF /\ pid \in DOMAIN ps
                                        /\ msgs[pid].tag = "Action"
                                        /\ ~msgs[pid].action.fire
                                     THEN [l EXCEPT !.held = FALSE]
                                     ELSE IF /\ pid \in DOMAIN ps
                                             /\ ps[pid].state = Joining
                                             /\ res[pid].player.state = Active
                                     THEN [l EXCEPT !.grace = InvincibleTime]
                                     ELSE l]
                   /\ last_op' = [op |-> "inputs", quit |-> DOMAIN ps \ stay,
                                  joined |-> {pid \in stay : ps[pid].state = Joining
                                                             /\ res[pid].player.state = Active}]
    /\ phase' = "bombs"
    /\ UNCHANGED <<req, world, mob_spawners, mobs, bombs, explosions, next_player_id>>

----------------------------------------------------------------------------
(* game_process_explosions_and_bombs *)

\* the sequences that enumerate the set S (iteration orders of a hash map)
RECURSIVE Orders(_)
Orders(S) ==
    IF S = {} THEN {<<>>}
    ELSE UNION {{<<x>> \o o : o \in Orders(S \ {x})} : x \in S}

\* explosion.update(delta_time) for every explosion
UpdateExplosions(store, dt) ==
    [store EXCEPT !.items = [i \in DOMAIN store.items |-> ExplosionUpdate(store.items[i], dt)]]

\* clear_explosion_cell for every explosion of ids that is not active any more
RECURSIVE ClearExpired(_, _, _)
ClearExpired(w, store, ids) ==
    IF ids = {} THEN w
    ELSE LET i == CHOOSE j \in ids : \A k \in ids : j <= k
             w1 == IF store.items[i].active THEN w ELSE clear_explosion_cell(w, store.items[i])
         IN ClearExpired(w1, store, ids \ {i})

\* bomb.tick(delta_time) for every bomb
TickBombs(store, dt) ==
    [store EXCEPT !.items = [i \in DOMAIN store.items |-> BombTick(store.items[i], dt)]]

\* world.explode_bomb for every id of explode_new, in order
RECURSIVE ExplodeAll(_, _, _, _)
ExplodeAll(g, order, roll, t) ==
    IF order = <<>> THEN g
    ELSE ExplodeAll(explode_bomb(g, Head(order), roll, t), Tail(order), roll, t)

\* the Mystery cells a detonation can hit: in line with a bomb, within its range
MysteryInReach(w, store) ==
    {pos \in {MapPosition(x, y) : x \in 0 .. MapW(w) - 1, y \in 0 .. MapH(w) - 1} :
        /\ get_cell(w, pos) = Mystery
        /\ \E i \in DOMAIN store.items :
              LET b == store.items[i]
              IN \/ (pos[1] = b.position[1] /\ diffu32(pos[2], b.position[2]) <= b.range)
                 \/ (pos[2] = b.position[2] /\ diffu32(pos[1], b.position[1]) <= b.range)}

\* the body of game_process_explosions_and_bombs(delta_time), run at time t
game_process_explosions_and_bombs(dt, t) ==
    LET ex1 == UpdateExplosions(explosions, dt)
           w1 == ClearExpired(world, ex1, DOMAIN ex1.items)
           ex2 == StoreRetainActive(ex1)
           b1 == TickBombs(bombs, dt)
           explode_new == {i \in DOMAIN b1.items : ~b1.items[i].active}
           hit == IF explode_new = {} THEN {} ELSE MysteryInReach(w1, b1)
       IN \E order \in Orders(explode_new) :
          \E roll \in [hit -> req.rolls] :
          \E g \in {ExplodeAll([world |-> w1, bombs |-> b1, explosions |-> ex2,
                                  players |-> players, queue |-> <<>>, detonated |-> <<>>],
                                 order, roll, t)} :
                /\ world' = g.world
                /\ bombs' = StoreRetainActive(g.bombs)
                /\ explosions' = g.explosions
                /\ players' = g.players
                /\ last_op' = [op |-> "bombs", detonated |-> g.detonated,
                               expired |-> DOMAIN ex1.items \ DOMAIN ex2.items]

GameProcessExplosionsAndBombs ==
    /\ phase = "bombs"
    /\ game_process_explosions_and_bombs(delta_time, now)
    /\ phase' = "players"
    /\ UNCHANGED <<req, mob_spawners, mobs, now, ticks, delta_time, next_player_id, connect_queue,
                   links, add_blocks_timer, sent, before, moves>>

----------------------------------------------------------------------------
(* game_process_players, create_bomb_for_player, process_player_move *)

\* create_bomb_for_player that does not ask whether a bomb remains
create_bomb_for_player_unlimited(g, player, t) ==
    LET pos == player.position
    IN IF get_cell(g.world, pos) = Empty
       THEN LET r == add_bomb(g.world, BombNew(player, pos, t), g.bombs)
            IN [world |-> r.world, bombs |-> r.bombs, player |-> bomb_placed(player)]
       ELSE [world |-> g.world, bombs |-> g.bombs, player |-> player]

\* g carries world and bombs; result: world, bombs and the player
create_bomb_for_player(g, player, t) ==
    IF ~has_bomb_remaining(player) THEN [world |-> g.world, bombs |-> g.bombs, player |-> player]
    ELSE LET pos == player.position
         IN IF get_cell(g.world, pos) = Empty
            THEN LET r == add_bomb(g.world, BombNew(player, pos, t), g.bombs)
                 IN [world |-> r.world, bombs |-> r.bombs, player |-> bomb_placed(player)]
            ELSE [world |-> g.world, bombs |-> g.bombs, player |-> player]

\* The result of process_player_move: world, explosions, the other players,
\* the player, the messages sent, whether a send failed (an Err is returned)
\* and whether the player died.
MoveResult(w, store, others, player) ==
    [world |-> w, explosions |-> store, others |-> others, player |-> player,
     out |-> <<>>, err |-> FALSE, died |-> FALSE, reason |-> ""]

\* the reasons process_player_move gives in the Dead message; the name of
\* the killer is not part of the model
ReasonSpawner == "You touched a robot spawner"
ReasonOwnBomb == "Oops! You were killed by your own bomb"
ReasonKilledBy == "You were killed by '{}'"
ReasonKilledByDead == "You were killed by {}, who has already died since placing that bomb"
ReasonUnknown == "Hmm...you died from an explosion but we don't know whose it was"

\* "Did we collect anything?": gi is the result of got_item for the cell type
\* ct the player stands on
player_pickup(base, ct, gi, t) ==
    IF ct \in {Empty, NoCell} THEN base
    ELSE IF ct = MobSpawner
    THEN IF ~has_flag(base.player, Invincible)
         THEN [base EXCEPT !.died = TRUE, !.reason = ReasonSpawner,
                           !.explosions = StoreAdd(@, ExplosionNew(0, base.player.position, t))]
         ELSE base
    ELSE IF ~gi.taken THEN base
    ELSE IF ~SendOk(base.player.id)
    THEN [base EXCEPT !.player = gi.player, !.err = TRUE]
    ELSE [base EXCEPT !.player = gi.player, !.out = <<"PowerUp">>,
                      !.world = set_cell(@, base.player.position, Empty)]

\* the explosion test that never awards the owner
player_touch_unscored(a, ic) ==
    IF a.err \/ has_flag(a.player, Invincible) THEN a
    ELSE IF ic.tag = "Explosion" /\ StoreHas(a.explosions, ic.id)
            /\ a.explosions.items[ic.id].harmful
    THEN [a EXCEPT !.died = TRUE, !.reason = ReasonOwnBomb]
    ELSE a

\* "Did we touch something we shouldn't have?": ic is the internal cell the
\* player stands on
player_touch(a, ic) ==
    IF a.err \/ has_flag(a.player, Invincible) THEN a
    ELSE IF ic.tag = "Explosion" /\ StoreHas(a.explosions, ic.id)
            /\ a.explosions.items[ic.id].harmful
    THEN [a EXCEPT !.died = TRUE,
                   !.reason = IF a.explosions.items[ic.id].pid = a.player.id
                              THEN ReasonOwnBomb
                              ELSE IF a.explosions.items[ic.id].pid \notin DOMAIN a.others
                              THEN ReasonUnknown
                              ELSE IF is_dead(a.others[a.explosions.items[ic.id].pid])
                              THEN ReasonKilledByDead
                              ELSE ReasonKilledBy,
                   !.others = IF a.explosions.items[ic.id].pid # a.player.id
                                 /\ a.explosions.items[ic.id].pid \in DOMAIN a.others
                                 /\ ~is_dead(a.others[a.explosions.items[ic.id].pid])
                              THEN [a.others EXCEPT
                                       ![a.explosions.items[ic.id].pid].score = @ + 1000]
                              ELSE a.others]
    ELSE a

\* send_data_to_player and the Dead message
player_frame(c) ==
    IF c.err THEN c
    ELSE IF ~SendOk(c.player.id) THEN [c EXCEPT !.err = TRUE]
    ELSE IF c.died
    THEN [c EXCEPT !.player = terminate(c.player), !.out = @ \o <<"FrameData", "Dead">>]
    ELSE [c EXCEPT !.out = @ \o <<"FrameData">>]

process_player_move(w, store, others, player, rnd, t) ==
    IF is_active(player)
    THEN player_frame(
            player_touch(
               player_pickup(MoveResult(w, store, others, player),
                             get_cell(w, player.position),
                             got_item(player, get_cell(w, player.position), rnd), t),
               get_internal_cell(w, player.position)))
    ELSE player_frame(MoveResult(w, store, others, player))

\* the frame taken from the frame_list becomes the action
pop_frame(p) ==
    IF p.frame_list = <<>> THEN [p EXCEPT !.action = ActionClear]
    ELSE [p EXCEPT !.action = Head(p.frame_list), !.frame_list = Tail(@)]

\* "if player.is_active() && player.action.fire()": the bomb is created and
\* fire is ceased
player_fire(g, p1, t) ==
    IF is_active(p1) /\ p1.action.fire
    THEN [create_bomb_for_player([world |-> g.world, bombs |-> g.bombs], p1, t)
             EXCEPT !.player.action.fire = FALSE]
    ELSE [world |-> g.world, bombs |-> g.bombs, player |-> p1]

\* the end of the loop body: terminate() on Err and the player is put back.
\* p3 is the player after update, r the result of process_player_move.  The
\* action left in the player is not read again (handle_player_input clears
\* it, the next game_process_players overwrites it), so it is stored cleared.
player_done(g, pid, cb, p3, r) ==
    [world |-> r.world, bombs |-> cb.bombs, explosions |-> r.explosions,
     players |-> [k \in DOMAIN g.players |->
                     IF k = pid
                     THEN [(IF r.err THEN terminate(r.player) ELSE r.player)
                              EXCEPT !.action = ActionClear]
                     ELSE r.others[k]],
     sent |-> LoggedAll([sent |-> g.sent, before |-> g.before], pid, r.out).sent,
     before |-> LoggedAll([sent |-> g.sent, before |-> g.before], pid, r.out).before,
     moves |-> [g.moves EXCEPT ![pid] =
                   @ \cup Steps(<<g.players[pid].state, p3.state, r.player.state,
                                  IF r.err THEN Dying ELSE r.player.state>>)],
     placed |-> g.placed \cup (IF cb.bombs.next_id # g.bombs.next_id THEN {pid} ELSE {}),
     failed |-> g.failed \cup (IF r.err THEN {pid} ELSE {}),
     died |-> g.died \cup (IF r.died THEN {pid} ELSE {}),
     deaths |-> g.deaths \cup
                (IF r.died
                 THEN {[pid |-> pid, reason |-> r.reason,
                        dead_sent |-> Cardinality({i \in DOMAIN r.out : r.out[i] = "Dead"}),
                        scored |-> {<<q, r.others[q].score - g.players[q].score>> :
                                       q \in {k \in DOMAIN r.others :
                                                 r.others[k].score # g.players[k].score}}]}
                 ELSE {}),
     framed |-> g.framed \cup (IF InSeq(r.out, "FrameData") THEN {<<pid, p3.state>>} ELSE {})]

player_moved(g, pid, cb, p3, rnd, t) ==
    player_done(g, pid, cb, p3,
                process_player_move(cb.world, g.explosions,
                                    Restrict(g.players, DOMAIN g.players \ {pid}), p3, rnd, t))

player_fired(g, pid, cb, rnd, dt, t) ==
    player_moved(g, pid, cb, update(cb.player, cb.world, dt), rnd, t)

\* the body of the loop of game_process_players for player pid.  g carries
\* world, bombs, explosions, players and the histories.
player_step(g, pid, rnd, dt, t) ==
    player_fired(g, pid, player_fire(g, pop_frame(g.players[pid]), t), rnd, dt, t)

RECURSIVE PlayersLoop(_, _, _, _, _)
PlayersLoop(g, order, rnd, dt, t) ==
    IF order = <<>> THEN g
    ELSE PlayersLoop(player_step(g, Head(order), rnd, dt, t), Tail(order), rnd, dt, t)

\* "Remove dead players" that removes nobody
remove_dead_keeps_all(ps) == ps

\* self.players.retain(|_, p| !p.is_dead())
remove_dead(ps) == Restrict(ps, {pid \in DOMAIN ps : ~is_dead(ps[pid])})

\* as_secs() > 10 of the block refill timer
RefillAfter == 10

\* game_process_players (the players in the order the map yields them, then
\* the dead players are disconnected and removed) and the rest of the
\* iteration of game_loop (block refill)
GameProcessPlayers ==
    /\ phase = "players"
    /\ \E order \in Orders(DOMAIN players) :
       \E rnd \in ItemRandomDraws :
       \E g \in {PlayersLoop([world |-> world, bombs |-> bombs, explosions |-> explosions,
                                players |-> players, sent |-> sent, before |-> before,
                                moves |-> moves, placed |-> {}, failed |-> {}, died |-> {},
                                deaths |-> {}, framed |-> {}],
                               order, rnd, delta_time, now)} :
          LET dead == {pid \in DOMAIN g.players : is_dead(g.players[pid])}
              told == {pid \in dead : SendOk(pid)}
              stay == DOMAIN g.players \ dead
              entities == {g.players[pid].position : pid \in stay}
              refill == (add_blocks_timer \div 1000) > RefillAfter
          IN /\ players' = remove_dead(g.players)
             /\ bombs' = g.bombs
             /\ explosions' = g.explosions
             /\ moves' = g.moves
             /\ links' = [pid \in DOMAIN links |->
                             [links[pid] EXCEPT
                                 !.held = IF pid \in g.placed THEN TRUE ELSE @,
                                 !.grace = IF pid \in DOMAIN players /\ @ > delta_time
                                           THEN @ - delta_time ELSE 0]]
             /\ sent' = [pid \in DOMAIN sent |->
                            IF pid \in told THEN g.sent[pid] \cup {"Disconnect"} ELSE g.sent[pid]]
             /\ before' = [pid \in DOMAIN before |->
                              IF pid \in told
                              THEN g.before[pid] \cup {<<k, "Disconnect">> : k \in g.sent[pid]}
                              ELSE g.before[pid]]
             /\ \E blocks \in IF refill
                               THEN PopulateBlockSets(g.world, entities, req.populate_draws)
                               ELSE {{}} :
                   /\ world' = IF refill THEN populate_blocks(g.world, blocks) ELSE g.world
                   /\ add_blocks_timer' = IF refill THEN 0 ELSE add_blocks_timer
                   /\ last_op' = [op |-> "players", placed |-> g.placed, failed |-> g.failed,
                                  died |-> g.died, deaths |-> g.deaths, framed |-> g.framed,
                                  removed |-> dead,
                                  told |-> told, refill |-> refill, blocks |-> blocks]
    /\ phase' = "idle"
    /\ UNCHANGED <<req, mob_spawners, mobs, now, ticks, delta_time, next_player_id, connect_queue>>

----------------------------------------------------------------------------

Next ==
    \/ NewGame
    \/ Accept
    \/ \E pid \in DOMAIN links : LinkExit(pid)
    \/ FrameStart
    \/ GameProcessExplosionsAndBombs
    \/ GameProcessPlayers

Spec == Init /\ [][Next]_vars

InitSolo == Setup(SoloRun)
SpecSolo == InitSolo /\ [][Next]_vars

InitChain == Setup(ChainRun)
SpecChain == InitChain /\ [][Next]_vars

\* The client of connection pid sends its next message: process_websocket
\* puts it on the inbound queue of the connection
ClientSend(pid) ==
    /\ req.queued
    /\ phase \in {"idle", "players"}
    /\ pid \in DOMAIN links
    /\ links[pid].up
    /\ Scripted(pid) # {}
    /\ links' = [links EXCEPT ![pid].queue = Append(@, req.script[pid][links[pid].taken + 1]),
                              ![pid].taken = @ + 1]
    /\ last_op' = [op |-> "send", pid |-> pid]
    /\ UNCHANGED <<phase, req, world, mob_spawners, mobs, players, bombs, explosions, now, ticks,
                   delta_time, next_player_id, add_blocks_timer, connect_queue, sent, before,
                   moves>>

NextQueue ==
    \/ Next
    \/ \E pid \in DOMAIN links : ClientSend(pid)

InitQueue == Setup(QueueRun)
SpecQueue == InitQueue /\ [][NextQueue]_vars

InitRelay == Setup(RelayRun)
SpecRelay == InitRelay /\ [][Next]_vars

\* game_loop is a loop without exit: an iteration that can start does start,
\* and each of its calls returns and is followed by the next.  The steps
\* are named by the position of the scheduler: the only step of Next from
\* "idle" to "bombs" is FrameStart, from "bombs" to "players"
\* GameProcessExplosionsAndBombs, from "players" to "idle" GameProcessPlayers.
Fairness ==
    /\ WF_phase(phase = "idle" /\ ticks < req.ticks /\ phase' = "bombs")
    /\ WF_phase(phase = "bombs" /\ phase' = "players")
    /\ WF_phase(phase = "players" /\ phase' = "idle")

InitFuse == Setup(FuseRun)
SpecFuse == InitFuse /\ [][Next]_vars /\ Fairness

----------------------------------------------------------------------------
(* World construction on its own: any requested width and height *)

\* the width and height requested, each from 1 to MaxDim
NewRun(width, height) == [DuelRun EXCEPT !.size = <<width, height>>]

InitNew == \E width, height \in 1 .. MaxDim : Setup(NewRun(width, height))

\* World::new alone
NewWorld ==
    /\ phase = "new"
    /\ world' = WorldNew(req.size[1], req.size[2])
    /\ phase' = "built"
    /\ last_op' = [op |-> "world"]
    /\ UNCHANGED <<req, mob_spawners, mobs, players, bombs, explosions, now, ticks, delta_time,
                   next_player_id, connect_queue, links, add_blocks_timer, sent, before, moves>>

NextNew == NewWorld

SpecNew == InitNew /\ [][NextNew]_vars

----------------------------------------------------------------------------
(* One bomb on a freshly constructed map *)

\* the ranges of the bomb
MaxBlastRange == 2

\* World::add_bomb of a bomb of that range on an Empty tile near the corner
PlaceBomb(pos, range) ==
    /\ phase = "built"
    /\ get_cell(world, pos) = Empty
    /\ LET r == add_bomb(world, BombNew([PlayerNew(0) EXCEPT !.range = range], pos, now), bombs)
       IN /\ world' = r.world
          /\ bombs' = r.bombs
    /\ phase' = "armed"
    /\ last_op' = [op |-> "bomb", pos |-> pos, range |-> range]
    /\ UNCHANGED <<req, mob_spawners, mobs, players, explosions, now, ticks, delta_time,
                   next_player_id, connect_queue, links, add_blocks_timer, sent, before, moves>>

\* World::explode_bomb of the bomb and the bombs.retain that follows it in
\* game_process_explosions_and_bombs
Detonate ==
    /\ phase = "armed"
    /\ \E id \in DOMAIN bombs.items :
       \E g \in {explode_bomb([world |-> world, bombs |-> bombs, explosions |-> explosions,
                               players |-> players, queue |-> <<>>, detonated |-> <<>>],
                              id, <<>>, now)} :
          /\ world' = g.world
          /\ bombs' = StoreRetainActive(g.bombs)
          /\ explosions' = g.explosions
          /\ last_op' = [op |-> "blast", pos |-> bombs.items[id].position,
                         range |-> bombs.items[id].range]
    /\ phase' = "blown"
    /\ UNCHANGED <<req, mob_spawners, mobs, players, now, ticks, delta_time, next_player_id,
                   connect_queue, links, add_blocks_timer, sent, before, moves>>

\* the delta_time of the frames that follow the detonation, in ms
FrameDeltas == {100, 150, 200}

\* game_process_explosions_and_bombs of a frame of dt ms, while an explosion
\* is left; the clock advances by the frame
AgeBlast(dt) ==
    /\ phase = "blown"
    /\ DOMAIN explosions.items # {}
    /\ game_process_explosions_and_bombs(dt, now + dt)
    /\ now' = now + dt
    /\ delta_time' = dt
    /\ UNCHANGED <<phase, req, mob_spawners, mobs, ticks, next_player_id, connect_queue, links,
                   add_blocks_timer, sent, before, moves>>

NextFresh ==
    \/ NewWorld
    \/ \E x, y \in 1 .. 3, range \in 1 .. MaxBlastRange : PlaceBomb(MapPosition(x, y), range)
    \/ Detonate
    \/ \E dt \in FrameDeltas : AgeBlast(dt)

SpecFresh == InitNew /\ [][NextFresh]_vars

----------------------------------------------------------------------------
(* find_nearest_blank on maps with few Empty cells *)

\* the map sizes find_nearest_blank is applied on
BlankSizes == {<<5, 5>>, <<7, 5>>, <<15, 3>>}

\* the cells World::new leaves Empty
FreeCells(w) ==
    {pos \in {MapPosition(x, y) : x \in 0 .. MapW(w) - 1, y \in 0 .. MapH(w) - 1} :
        get_cell(w, pos) = Empty}

\* the sets of at most two cells of a set
OpenSets(free) == {{}} \cup {{a, b} : a, b \in free}

\* a run that only builds a map of that size, all of whose cells but those of
\* open are walls or blocks
BlankRun(size, open) == [open |-> open] @@ [DuelRun EXCEPT !.size = size]

InitBlank ==
    \E size \in BlankSizes :
       \E open \in OpenSets(FreeCells(WorldNew(size[1], size[2]))) :
          Setup(BlankRun(size, open))

\* World::new, and populate_blocks on every cell outside open
BlockedWorld ==
    /\ phase = "new"
    /\ LET w == WorldNew(req.size[1], req.size[2])
       IN world' = populate_blocks(w, FreeCells(w) \ req.open)
    /\ phase' = "map"
    /\ last_op' = [op |-> "map"]
    /\ UNCHANGED <<req, mob_spawners, mobs, players, bombs, explosions, now, ticks, delta_time,
                   next_player_id, connect_queue, links, add_blocks_timer, sent, before, moves>>

\* find_nearest_blank(pos), for a position on the map
FindNearestBlank(pos) ==
    /\ phase = "map"
    /\ phase' = "found"
    /\ last_op' = [op |-> "blank", pos |-> pos, found |-> find_nearest_blank(world, pos)]
    /\ UNCHANGED <<req, world, mob_spawners, mobs, players, bombs, explosions, now, ticks,
                   delta_time, next_player_id, connect_queue, links, add_blocks_timer, sent,
                   before, moves>>

NextBlank ==
    \/ BlockedWorld
    \/ \E x \in 0 .. MapW(world) - 1, y \in 0 .. MapH(world) - 1 :
          FindNearestBlank(MapPosition(x, y))

SpecBlank == InitBlank /\ [][NextBlank]_vars

----------------------------------------------------------------------------
(* Path finding, World::get_possible_moves / World::path_find *)

\* impl CanPass for Mob: a mob does not pass Wall, Mystery and Bomb
MobCanPass(cell_type) == cell_type \notin {Wall, Mystery, Bomb}

\* Mob::can_pass_position, the test on the cell of a position; there is no
\* cell to pass outside the map
can_pass_position(w, pos) == get_cell(w, pos) # NoCell /\ MobCanPass(get_cell(w, pos))

\* Option<PositionOffset>::None
NoOffset == <<>>

\* MapPosition::distance_to
distance_to(a, b) == diffu32(b[2], a[2]) + diffu32(b[1], a[1])

\* PathFindData::new / new_from
PathFindDataNew(position) ==
    [position |-> position, travelled |-> 0, initial_offset |-> NoOffset]

PathFindDataNewFrom(position, prev) ==
    [position |-> position, travelled |-> prev.travelled + 1,
     initial_offset |-> IF prev.initial_offset = NoOffset
                        THEN PositionOffset(position[1] - prev.position[1],
                                            position[2] - prev.position[2])
                        ELSE prev.initial_offset]

\* the moves from pf to up, right, down and left that are not seen and that
\* the mob can pass
get_possible_moves(w, pf, seen) ==
    LET pos == pf.position
        ms == <<MapPosition(pos[1], pos[2] - 1), MapPosition(pos[1] + 1, pos[2]),
                MapPosition(pos[1], pos[2] + 1), MapPosition(pos[1] - 1, pos[2])>>
        ok == SelectSeq(ms, LAMBDA m : m \notin seen /\ can_pass_position(w, m))
    IN [i \in 1 .. Len(ok) |-> PathFindDataNewFrom(ok[i], pf)]

\* the sort key of path_find that forgets the way travelled
PathKey_greedy(a, pos_to) == distance_to(a.position, pos_to)

\* the sort key of path_find
PathKey(a, pos_to) == a.travelled + distance_to(a.position, pos_to)

\* sort_by_cached_key, a stable sort: e is put behind the elements whose key
\* is not larger
RECURSIVE InsertByKey(_, _, _)
InsertByKey(sorted, e, pos_to) ==
    IF sorted = <<>> THEN <<e>>
    ELSE IF PathKey(Head(sorted), pos_to) <= PathKey(e, pos_to)
    THEN <<Head(sorted)>> \o InsertByKey(Tail(sorted), e, pos_to)
    ELSE <<e>> \o sorted

RECURSIVE SortOpenList(_, _, _)
SortOpenList(list, sorted, pos_to) ==
    IF list = <<>> THEN sorted
    ELSE SortOpenList(Tail(list), InsertByKey(sorted, Head(list), pos_to), pos_to)

\* the while loop of path_find (PathLoop) and its for loop over the sorted
\* open list (PathScan, at element i); the result is the initial offset or
\* NoOffset
RECURSIVE PathLoop(_, _, _, _, _)
RECURSIVE PathScan(_, _, _, _, _, _)
PathLoop(w, pos_to, range, open_list, seen) ==
    IF open_list = <<>> THEN NoOffset
    ELSE PathScan(w, pos_to, range, SortOpenList(open_list, <<>>, pos_to), 1, seen)

PathScan(w, pos_to, range, list, i, seen) ==
    IF i > Len(list) THEN NoOffset
    ELSE IF list[i].position = pos_to THEN list[i].initial_offset
    ELSE LET seen1 == seen \cup {list[i].position}
             new_moves == IF list[i].travelled < range
                          THEN get_possible_moves(w, list[i], seen1)
                          ELSE <<>>
         IN IF new_moves # <<>>
            THEN PathLoop(w, pos_to, range,
                          SubSeq(list \o new_moves, i + 1, Len(list) + Len(new_moves)), seen1)
            ELSE PathScan(w, pos_to, range, list, i + 1, seen1)

path_find(w, pos_from, pos_to, range) ==
    IF pos_to = pos_from THEN NoOffset
    ELSE PathLoop(w, pos_to, range, <<PathFindDataNew(pos_from)>>, {pos_from})

----------------------------------------------------------------------------
(* path_find on maps with a few blocks and a bomb *)

\* the number of Mystery blocks put on the map
MaxBlocks == 2

\* the sets of at most MaxBlocks cells of a set
BlockSets(free) == {S \in SUBSET free : Cardinality(S) <= MaxBlocks}

\* the ranges path_find is called with
PathRanges == {2, 4, 16}

\* a run that only builds a 7 x 5 map with Mystery blocks on the cells of
\* blocks
PathRun(blocks) == [blocks |-> blocks] @@ [DuelRun EXCEPT !.size = <<7, 5>>]

InitPath == \E blocks \in BlockSets(FreeCells(WorldNew(7, 5))) : Setup(PathRun(blocks))

\* World::new and populate_blocks on the cells of blocks
Maze ==
    /\ phase = "new"
    /\ world' = populate_blocks(WorldNew(req.size[1], req.size[2]), req.blocks)
    /\ phase' = "maze"
    /\ last_op' = [op |-> "maze"]
    /\ UNCHANGED <<req, mob_spawners, mobs, players, bombs, explosions, now, ticks, delta_time,
                   next_player_id, connect_queue, links, add_blocks_timer, sent, before, moves>>

\* path_find of a mob from a cell it can stand on to a cell inside the border
PathFind(pos_from, pos_to, range) ==
    /\ phase = "maze"
    /\ can_pass_position(world, pos_from)
    /\ phase' = "path"
    /\ last_op' = [op |-> "path", from |-> pos_from, to |-> pos_to, range |-> range,
                   best |-> path_find(world, pos_from, pos_to, range)]
    /\ UNCHANGED <<req, world, mob_spawners, mobs, players, bombs, explosions, now, ticks,
                   delta_time, next_player_id, connect_queue, links, add_blocks_timer, sent,
                   before, moves>>

NextPath ==
    \/ Maze
    \/ \E fx, tx \in 1 .. MapW(world) - 2, fy, ty \in 1 .. MapH(world) - 2, range \in PathRanges :
          PathFind(MapPosition(fx, fy), MapPosition(tx, ty), range)

SpecPath == InitPath /\ [][NextPath]_vars

----------------------------------------------------------------------------
(* Mobs, engine/mob.rs *)

\* enum MobTargetMode
NearbyCell == "NearbyCell"
NearbyPlayer == "NearbyPlayer"
Clockwise == "Clockwise"
Anticlockwise == "Anticlockwise"
ClockwiseNext == "ClockwiseNext"
AnticlockwiseNext == "AnticlockwiseNext"
DangerAvoidance == "DangerAvoidance"

\* impl From<u8> for MobTargetMode
MobTargetModeFrom(value) ==
    CASE value = 0 -> NearbyCell
      [] value = 1 -> NearbyPlayer
      [] value = 2 -> Clockwise
      [] value = 3 -> Anticlockwise
      [] value = 4 -> ClockwiseNext
      [] value = 5 -> AnticlockwiseNext
      [] value = 6 -> DangerAvoidance

\* get_enum_values of MobTargetMode: (0..7), upper end excluded
MobTargetModeValues == 0 .. 6

\* enum MobTargetDir, Up = 0, Right = 1, Down = 2, Left = 3, and
\* MobTargetDir::get_offset
DirUp == 0
DirOffsets == <<PositionOffset(0, -1), PositionOffset(1, 0),
                PositionOffset(0, 1), PositionOffset(-1, 0)>>
get_offset(dir) == DirOffsets[dir + 1]

\* MobTargetDir + DirAction: right() for Clockwise, left() for Anticlockwise
DirAdd(dir, da) == IF da = Clockwise THEN (dir + 1) % 4 ELSE (dir + 3) % 4

\* target_remaining of DangerAvoidance, 99999.0 s
DangerTime == 99999000

\* The time a target is kept, drawn by choose_new_target: the lower end of
\* gen_range(5.0, 25.0), (10.0, 120.0), (1.0, 5.0) and (1.0, 10.0)
TargetTime(mode) ==
    CASE mode = NearbyCell -> 5000
      [] mode = NearbyPlayer -> 10000
      [] mode \in {Clockwise, Anticlockwise} -> 1000
      [] OTHER -> 1000

\* Mob::default with the position spawn_mob gives it; smart is drawn.
\* rolls (history) counts the calls of choose_new_target since the mob was
\* made or since its last update began.
MobNew(position, smart) ==
    [id |-> 0, active |-> TRUE, position |-> position, action |-> ActionClear, speed |-> 60,
     target_mode |-> NearbyCell, target_remaining |-> 0,
     target_position |-> MapPosition(0, 0), old_position |-> MapPosition(0, 0),
     target_player |-> 0, target_dir |-> DirUp, range |-> 8, smart |-> smart,
     danger |-> FALSE, rolls |-> 0]

\* the while loop of path_find_nearest_safe_space (SafeLoop) and its for
\* loop over the open list sorted by travelled (SafeScan, at element i); the
\* open list is built in the order of travelled, so the stable sort leaves
\* it as it is
RECURSIVE SafeLoop(_, _, _, _, _)
RECURSIVE SafeScan(_, _, _, _, _, _)
SafeLoop(w, range, open_list, seen, safest) ==
    IF open_list = <<>> THEN safest.pos
    ELSE SafeScan(w, range, open_list, 1, seen, safest)

SafeScan(w, range, list, i, seen, safest) ==
    IF i > Len(list) THEN safest.pos
    ELSE LET ts == get_mob_data(w, list[i].position)
             safest1 == IF ts > safest.ts THEN [ts |-> ts, pos |-> list[i].position]
                        ELSE safest
             seen1 == seen \cup {list[i].position}
             new_moves == IF list[i].travelled < range
                          THEN get_possible_moves(w, list[i], seen1)
                          ELSE <<>>
         IN IF ts = NoTs THEN list[i].position
            ELSE IF new_moves # <<>>
            THEN SafeLoop(w, range,
                          SubSeq(list \o new_moves, i + 1, Len(list) + Len(new_moves)),
                          seen1, safest1)
            ELSE SafeScan(w, range, list, i + 1, seen1, safest1)

\* World::path_find_nearest_safe_space at time t (Timestamp::default())
path_find_nearest_safe_space(w, pos, range, t) ==
    IF get_mob_data(w, pos) = NoTs THEN pos
    ELSE SafeLoop(w, range, <<PathFindDataNew(pos)>>, {pos}, [ts |-> t, pos |-> pos])

\* the players choose_new_target may find first in players.values()
PlayersInSight(mob, ps) ==
    {pid \in DOMAIN ps : is_within_range(ps[pid].position, mob.position, mob.range)}

\* Mob::choose_new_target at time t; d holds the draws: the index drawn by
\* MobTargetMode::random(), the offsets drawn by random_offset and the
\* player that players.values() yields first
choose_new_target(mob, w, ps, t, d) ==
    LET mode == IF mob.danger THEN DangerAvoidance ELSE MobTargetModeFrom(d.mode)
        map_pos == mob.position
        m1 == [mob EXCEPT !.target_mode = mode, !.rolls = @ + 1]
        blank == find_nearest_blank(w, PosAdd(map_pos, d.offset))
        seen == PlayersInSight(mob, ps)
        fallback == [m1 EXCEPT !.old_position = map_pos,
                               !.target_remaining = TargetTime(ClockwiseNext)]
    IN CASE mode = NearbyCell ->
                IF blank # MapPosition(1, 1)
                THEN [m1 EXCEPT !.target_remaining = TargetTime(mode),
                                !.target_position = blank]
                ELSE fallback
         [] mode = NearbyPlayer ->
                IF seen # {}
                THEN [m1 EXCEPT !.target_player = IF d.player \in seen THEN d.player
                                                  ELSE CHOOSE pid \in seen : TRUE,
                                !.target_remaining = TargetTime(mode)]
                ELSE fallback
         [] mode \in {Clockwise, Anticlockwise} ->
                [m1 EXCEPT !.target_remaining = TargetTime(mode)]
         [] mode \in {ClockwiseNext, AnticlockwiseNext} ->
                [m1 EXCEPT !.old_position = map_pos, !.target_remaining = TargetTime(mode)]
         [] mode = DangerAvoidance ->
                [m1 EXCEPT !.target_remaining = DangerTime,
                           !.target_position =
                               path_find_nearest_safe_space(w, map_pos, mob.range, t)]

\* self.action.set(best.x, best.y, false)
ActionSet(mob, best) == [mob EXCEPT !.action = [x |-> best[1], y |-> best[2], fire |-> FALSE]]

\* match world.path_find(..): Some(best) sets the action, None asks for a
\* new target
StepOrNewTarget(mob, best) ==
    IF best # NoOffset THEN [mob |-> ActionSet(mob, best), new_target |-> FALSE]
    ELSE [mob |-> mob, new_target |-> TRUE]

\* if let Some(best) = world.path_find(..) of DangerAvoidance
StepIfAny(mob, best) ==
    [mob |-> IF best # NoOffset THEN ActionSet(mob, best) ELSE mob, new_target |-> FALSE]

\* update_action, DangerAvoidance: a target that is not safe any more is
\* replaced by the nearest safe space
Retarget(mob, w, t) ==
    IF get_mob_data(w, mob.target_position) # NoTs
    THEN [mob EXCEPT !.target_position =
                         path_find_nearest_safe_space(w, mob.position, mob.range, t)]
    ELSE mob

\* update_action, the match on target_mode of the modes that look for a
\* way: the mob and whether a new target is due
TargetMatch(mob, ps, w, t) ==
    LET map_pos == mob.position
        mode == mob.target_mode
    IN CASE mode = NearbyCell ->
               IF map_pos = mob.target_position THEN [mob |-> mob, new_target |-> TRUE]
               ELSE StepOrNewTarget(mob, path_find(w, map_pos, mob.target_position,
                                                   mob.range * 2))
         [] mode = NearbyPlayer ->
               IF mob.target_player \notin DOMAIN ps
               THEN [mob |-> mob, new_target |-> FALSE]
               ELSE IF is_dead(ps[mob.target_player])
               THEN [mob |-> mob, new_target |-> TRUE]
               ELSE StepOrNewTarget(mob, path_find(w, map_pos,
                                                   ps[mob.target_player].position,
                                                   mob.range * 2))
         [] mode = DangerAvoidance ->
               StepIfAny(Retarget(mob, w, t),
                         path_find(w, map_pos, Retarget(mob, w, t).target_position,
                                   mob.range * 2))
         [] OTHER -> [mob |-> mob, new_target |-> FALSE]

\* update_action, if let Some(da) = dir_action: the modes that turn
DirMatch(mob, w) ==
    LET map_pos == mob.position
        mode == mob.target_mode
        da == IF mode \in {Clockwise, ClockwiseNext} THEN Clockwise ELSE Anticlockwise
        opportunistic == mode \in {ClockwiseNext, AnticlockwiseNext}
        new_dir == DirAdd(mob.target_dir, da)
    IN IF opportunistic /\ map_pos # mob.old_position
          /\ can_pass_position(w, PosAdd(map_pos, get_offset(new_dir)))
       THEN ActionSet([mob EXCEPT !.target_dir = new_dir, !.old_position = map_pos],
                      get_offset(new_dir))
       ELSE IF can_pass_position(w, PosAdd(map_pos, get_offset(mob.target_dir)))
       THEN ActionSet(mob, get_offset(mob.target_dir))
       ELSE [mob EXCEPT !.target_dir = new_dir]

\* update_action, its end: target_remaining runs down and a new target is
\* chosen when it is used up or due
TargetRunsDown(r, dt, ps, w, t, d) ==
    LET mob == [r.mob EXCEPT !.target_remaining = @ - dt]
    IN IF mob.target_remaining <= 0 \/ r.new_target
       THEN choose_new_target(mob, w, ps, t, d)
       ELSE mob

\* Mob::update_action at time t; d holds the draws of its choose_new_target
update_action(mob, dt, ps, w, t, d) ==
    TargetRunsDown(IF mob.target_mode \in {Clockwise, Anticlockwise, ClockwiseNext,
                                           AnticlockwiseNext}
                   THEN [mob |-> DirMatch([mob EXCEPT !.action = ActionClear], w),
                         new_target |-> FALSE]
                   ELSE TargetMatch([mob EXCEPT !.action = ActionClear], ps, w, t),
                   dt, ps, w, t, d)

\* Mob::danger_enable that leaves the target as it is
danger_enable_idle(mob, w, ps, t, d) == [mob EXCEPT !.danger = TRUE]

\* Mob::danger_enable
danger_enable(mob, w, ps, t, d) ==
    LET m1 == [mob EXCEPT !.danger = TRUE]
    IN IF mob.target_mode = DangerAvoidance THEN m1 ELSE choose_new_target(m1, w, ps, t, d)

\* Mob::danger_disable
danger_disable(mob, w, ps, t, d) ==
    LET m1 == [mob EXCEPT !.danger = FALSE]
    IN IF mob.target_mode = DangerAvoidance THEN choose_new_target(m1, w, ps, t, d) ELSE m1

\* the centre of a tile in pixels, PixelPositionF64::from_map_position
TileCentre(w, k, i) == k * w.sizes.tile_size[i] + w.sizes.tile_size[i] \div 2

\* Mob::update, "Oops - we're in a wall"
LeaveWall(mob, w) ==
    IF get_cell(w, mob.position) = Wall
    THEN [mob EXCEPT !.position = find_nearest_blank(w, mob.position)]
    ELSE mob

\* Mob::update, "If we're in danger, do something about it", on the tile
\* map_pos
DangerStep(mob, map_pos, w, ps, t, d) ==
    IF mob.danger
    THEN IF get_mob_data(w, map_pos) = NoTs THEN danger_disable(mob, w, ps, t, d) ELSE mob
    ELSE IF mob.smart /\ get_mob_data(w, map_pos) # NoTs
         THEN danger_enable(mob, w, ps, t, d)
         ELSE mob

\* Mob::update after update_action, for the mob that began the update on
\* the tile map_pos: the locks on a tile it cannot pass, the lock to the
\* gridlines and update_with_temp_action.  The mob stands on the centre of
\* its tile and update_with_temp_action takes it to the next tile.
MoveStep(mob, map_pos, w, dt) ==
    LET a == mob.action
        try_x == PosAdd(map_pos, PositionOffset(a.x, 0))
        try_y == PosAdd(map_pos, PositionOffset(0, a.y))
        x1 == IF ~can_pass_position(w, try_x) THEN try_x[1] ELSE mob.position[1]
        y1 == IF ~can_pass_position(w, try_y) THEN try_y[2] ELSE mob.position[2]
        \* Lock to gridlines: tolerance = speed * delta_time, in pixels
        tolerance == (mob.speed * dt) \div 1000
        target_y == TileCentre(w, map_pos[2], 2)
        target_x == TileCentre(w, map_pos[1], 1)
        lock == IF a.x # 0
                THEN IF target_y > TileCentre(w, y1, 2) + tolerance
                     THEN [x |-> x1, y |-> y1, ax |-> 0, ay |-> 1]
                     ELSE IF target_y < TileCentre(w, y1, 2) - tolerance
                     THEN [x |-> x1, y |-> y1, ax |-> 0, ay |-> -1]
                     ELSE [x |-> x1, y |-> map_pos[2], ax |-> a.x, ay |-> 0]
                ELSE IF a.y # 0
                THEN IF target_x > TileCentre(w, x1, 1) + tolerance
                     THEN [x |-> x1, y |-> y1, ax |-> 1, ay |-> 0]
                     ELSE IF target_x < TileCentre(w, x1, 1) - tolerance
                     THEN [x |-> x1, y |-> y1, ax |-> -1, ay |-> 0]
                     ELSE [x |-> map_pos[1], y |-> y1, ax |-> 0, ay |-> a.y]
                ELSE [x |-> x1, y |-> y1, ax |-> 0, ay |-> 0]
    IN [mob EXCEPT !.position = MapPosition(lock.x + lock.ax, lock.y + lock.ay)]

\* Mob::update at time t.  d1 holds the draws of the choose_new_target of
\* danger_enable / danger_disable, d2 those of update_action.
MobUpdate(mob, dt, ps, w, t, d1, d2) ==
    IF ~mob.active THEN mob
    ELSE MoveStep(update_action(DangerStep(LeaveWall([mob EXCEPT !.rolls = 0], w),
                                           mob.position, w, ps, t, d1),
                                dt, ps, w, t, d2),
                  mob.position, w, dt)

\* the tile of every mob of a store
MobPositions(store) == {store.items[i].position : i \in DOMAIN store.items}

\* game_process_mobs: the check that follows the update of a mob, whether
\* it stands on a harmful explosion
MobKilledBy(mob, w, ex) ==
    LET ic == get_internal_cell(w, mob.position)
    IN IF ic.tag = "Explosion" /\ StoreHas(ex, ic.id) /\ ex.items[ic.id].harmful
       THEN {ex.items[ic.id].pid}
       ELSE {}

\* the points for the mobs that the explosions of player pid killed
MobPoints(killed, pid) ==
    LET mine == {m \in killed : m.pid = pid}
    IN 2000 * Cardinality({m \in mine : m.smart}) + 500 * Cardinality({m \in mine : ~m.smart})

\* game_process_mobs after the updates: the kills and the retain.  Result:
\* [mobs, players] and (history) the mobs as Mob::update left them
KillMobs(store, updated, ps, w, ex) ==
    LET dead == {i \in DOMAIN updated : MobKilledBy(updated[i], w, ex) # {}}
        killed == {[id |-> i, smart |-> updated[i].smart,
                    pid |-> CHOOSE pid \in MobKilledBy(updated[i], w, ex) : TRUE] : i \in dead}
        after == [i \in DOMAIN updated |->
                     IF i \in dead THEN [updated[i] EXCEPT !.active = FALSE] ELSE updated[i]]
    IN [updated |-> updated,
        mobs |-> StoreRetainActive([store EXCEPT !.items = after]),
        players |-> [pid \in DOMAIN ps |->
                        IF is_dead(ps[pid]) THEN ps[pid]
                        ELSE [ps[pid] EXCEPT !.score = @ + MobPoints(killed, pid)]]]

\* RustonatorGame::game_process_mobs at time t with the draws d1 and d2 of
\* every mob
game_process_mobs(store, ps, w, ex, dt, t, d1, d2) ==
    KillMobs(store,
             [i \in DOMAIN store.items |->
                 MobUpdate(store.items[i], dt, ps, w, t, d1[i], d2[i])],
             ps, w, ex)

\* the spawners spawn_mob may take: those without a mob within range 3
FreeSpawners(spawners, store) ==
    {k \in 1 .. Len(spawners) : ~is_nearby_map_entity(spawners[k], MobPositions(store), 3)}

\* spawn_mob that does not look for the mobs near a spawner
spawn_mob_crowded(store, spawners, w, ps, t, first, smart, d) ==
    IF spawners = <<>> THEN store
    ELSE StoreAdd(store, choose_new_target(MobNew(spawners[1], smart), w, ps, t, d))

\* RustonatorGame::spawn_mob at time t.  The shuffle puts any of the
\* spawners without a mob nearby before the others of them: first is that
\* spawner, smart the draw of Mob::default, d the draws of choose_new_target.
spawn_mob(store, spawners, w, ps, t, first, smart, d) ==
    IF FreeSpawners(spawners, store) = {} THEN store
    ELSE StoreAdd(store, choose_new_target(MobNew(spawners[first], smart), w, ps, t, d))

\* max_mobs of game_loop: (width * height * 0.4) as usize
max_mobs(width, height) == (4 * width * height) \div 10

----------------------------------------------------------------------------
(* Mobs on the map: bombs are dropped, game_loop runs its frames, mobs are *)
(* spawned and updated                                                     *)

\* the draws of choose_new_target in a run
TargetDraws ==
    [mode : req.mode_draws, offset : req.offset_draws, player : {0}]

\* A run on a 5 x 5 map with every target mode and both kinds of mob
MobTicks == 4
MobBombIds == 1
MobRun ==
    [mode_draws |-> MobTargetModeValues, offset_draws |-> {PositionOffset(-1, 1)},
     smart_draws |-> BOOLEAN, spawn_due |-> BOOLEAN] @@
    [DuelRun EXCEPT !.ticks = MobTicks, !.bombs = MobBombIds, !.delta_times = {1000},
                    !.rolls = {95}]

\* A run on a 7 x 5 map in which every mob looks for the tile to its left,
\* walks to the left end of the map and stays there, so that the spawners
\* on the right are free again, until the map holds max_mobs mobs
HordeTicks == 64
HordeRun ==
    [mode_draws |-> {0}, offset_draws |-> {PositionOffset(-1, 0)},
     smart_draws |-> {FALSE}, spawn_due |-> {TRUE}] @@
    [DuelRun EXCEPT !.size = <<7, 5>>, !.ticks = HordeTicks, !.bombs = 0,
                    !.delta_times = {1000}, !.initial_draws = {<<5, 2>>},
                    !.rolls = {95}]

\* a bomb of a player is added on an Empty tile (World::add_bomb, as
\* create_bomb_for_player calls it)
DropBomb(pos, range) ==
    /\ phase = "idle"
    /\ bombs.next_id <= req.bombs
    /\ get_cell(world, pos) = Empty
    /\ LET r == add_bomb(world, BombNew([PlayerNew(0) EXCEPT !.range = range], pos, now), bombs)
       IN /\ world' = r.world
          /\ bombs' = r.bombs
    /\ last_op' = [op |-> "bomb", pos |-> pos, range |-> range]
    /\ UNCHANGED <<phase, req, mob_spawners, mobs, players, explosions, now, ticks, delta_time,
                   next_player_id, connect_queue, links, add_blocks_timer, sent, before, moves>>

\* game_loop: a frame of dt ms begins, game_process_explosions_and_bombs
MobFrame(dt) ==
    /\ phase = "idle"
    /\ ticks < req.ticks
    /\ game_process_explosions_and_bombs(dt, now + dt)
    /\ now' = now + dt
    /\ delta_time' = dt
    /\ ticks' = ticks + 1
    /\ phase' = "mobs"
    /\ UNCHANGED <<req, mob_spawners, mobs, next_player_id, connect_queue, links,
                   add_blocks_timer, sent, before, moves>>

\* game_loop: game_process_mobs
GameProcessMobs ==
    /\ phase = "mobs"
    /\ \E d1, d2 \in [DOMAIN mobs.items -> TargetDraws] :
       \E g \in {game_process_mobs(mobs, players, world, explosions, delta_time, now,
                                    d1, d2)} :
             /\ mobs' = g.mobs
             /\ players' = g.players
             /\ last_op' = [op |-> "mobs", before |-> mobs.items, updated |-> g.updated]
    /\ phase' = "spawn"
    /\ UNCHANGED <<req, world, mob_spawners, bombs, explosions, now, ticks, delta_time,
                   next_player_id, connect_queue, links, add_blocks_timer, sent, before, moves>>

\* game_loop: "Spawn new mob ?".  due tells whether mob_spawn_timer has
\* passed next_mob_spawn_seconds, which is drawn from 1..60 s.
SpawnStep ==
    /\ phase = "spawn"
    /\ \E due \in req.spawn_due :
          LET called == due /\ Cardinality(DOMAIN mobs.items) < max_mobs(req.size[1], req.size[2])
              free == FreeSpawners(mob_spawners, mobs)
          IN /\ \E first \in (IF free = {} THEN {0} ELSE free), smart \in req.smart_draws,
                   d \in TargetDraws :
                   mobs' = IF called
                           THEN spawn_mob(mobs, mob_spawners, world, players, now, first,
                                          smart, d)
                           ELSE mobs
             /\ last_op' = [op |-> "spawn", due |-> due, called |-> called]
    /\ phase' = "idle"
    /\ UNCHANGED <<req, world, mob_spawners, players, bombs, explosions, now, ticks,
                   delta_time, next_player_id, connect_queue, links, add_blocks_timer,
                   sent, before, moves>>

InitMob == Setup(MobRun)

NextMob ==
    \/ NewGame
    \/ \E x, y \in 1 .. 3, range \in 1 .. MaxBlastRange : DropBomb(MapPosition(x, y), range)
    \/ \E dt \in req.delta_times : MobFrame(dt)
    \/ GameProcessMobs
    \/ SpawnStep

SpecMob == InitMob /\ [][NextMob]_vars

InitHorde == Setup(HordeRun)

\* no player drops a bomb while the mobs gather
NextHorde ==
    \/ NewGame
    \/ \E dt \in req.delta_times : MobFrame(dt)
    \/ GameProcessMobs
    \/ SpawnStep

SpecHorde == InitHorde /\ [][NextHorde]_vars

----------------------------------------------------------------------------
(* path_find_nearest_safe_space on maps with bombs *)

\* the Mystery blocks on the map and the bombs laid
SafeBlocks == 1
SafeBombIds == 2

\* the time between two bombs and between the last bomb and the search, ms
SafeGaps == {0, 1000}

\* the ranges of the search
SafeRanges == {1, 8}

SafeRun(blocks) ==
    [blocks |-> blocks] @@ [DuelRun EXCEPT !.size = <<7, 5>>, !.bombs = SafeBombIds]

InitSafe ==
    \E blocks \in {b \in SUBSET FreeCells(WorldNew(7, 5)) : Cardinality(b) <= SafeBlocks} :
        Setup(SafeRun(blocks))

\* a player lays a bomb of that range on an Empty tile, gap ms after the
\* bomb before (World::add_bomb, as create_bomb_for_player calls it)
LayBomb(pos, range, gap) ==
    /\ phase = "maze"
    /\ bombs.next_id <= req.bombs
    /\ get_cell(world, pos) = Empty
    /\ LET r == add_bomb(world, BombNew([PlayerNew(0) EXCEPT !.range = range], pos, now + gap),
                         bombs)
       IN /\ world' = r.world
          /\ bombs' = r.bombs
    /\ now' = now + gap
    /\ last_op' = [op |-> "bomb", pos |-> pos, range |-> range]
    /\ UNCHANGED <<phase, req, mob_spawners, mobs, players, explosions, ticks, delta_time,
                   next_player_id, connect_queue, links, add_blocks_timer, sent, before, moves>>

\* one call of path_find_nearest_safe_space for a mob on a tile it can
\* pass, gap ms after the last bomb
SafeFind(pos, range, gap) ==
    /\ phase = "maze"
    /\ can_pass_position(world, pos)
    /\ phase' = "safe"
    /\ now' = now + gap
    /\ last_op' = [op |-> "safe", from |-> pos, range |-> range, t |-> now + gap,
                   best |-> path_find_nearest_safe_space(world, pos, range, now + gap)]
    /\ UNCHANGED <<req, world, mob_spawners, mobs, players, bombs, explosions, ticks,
                   delta_time, next_player_id, connect_queue, links, add_blocks_timer, sent,
                   before, moves>>

NextSafe ==
    \/ Maze
    \/ \E x, y \in 1 .. 3, range \in 1 .. MaxBlastRange, gap \in SafeGaps :
          LayBomb(MapPosition(x, y), range, gap)
    \/ \E x \in 1 .. 5, y \in 1 .. 3, range \in SafeRanges, gap \in SafeGaps :
          SafeFind(MapPosition(x, y), range, gap)

SpecSafe == InitSafe /\ [][NextSafe]_vars

----------------------------------------------------------------------------
(* Detonations on maps with blocks, items and other bombs *)

\* the bombs laid and the frames in which explosions age
BlastBombIds == 3
BlastTicks == 2

\* the delta_time of those frames, ms
BlastDeltas == {100, 400}

\* the cells near the corner (1,1) that blocks and bombs are put on
NearCells == {pos \in FreeCells(WorldNew(7, 5)) : pos[1] + pos[2] <= 4 /\ pos[2] <= 2}

BlastRun(blocks) ==
    [blocks |-> blocks] @@ [DuelRun EXCEPT !.size = <<7, 5>>, !.bombs = BlastBombIds,
                                           !.ticks = BlastTicks, !.delta_times = BlastDeltas]

InitBlast == \E blocks \in {b \in SUBSET NearCells : Cardinality(b) <= 1} : Setup(BlastRun(blocks))

\* the timer of bomb id runs out: World::explode_bomb of the bomb and the
\* bombs.retain that follows it in game_process_explosions_and_bombs. The
\* step keeps the world, the bombs and the explosions before it and what
\* explode_bomb_path of this bomb returned.
Blast(id) ==
    /\ phase = "maze"
    /\ id \in DOMAIN bombs.items
    /\ LET b == bombs.items[id]
           w1 == IF get_cell(world, b.position) = Bomb
                 THEN clear_internal_cell(set_cell(world, b.position, Empty), b.position)
                 ELSE world
       IN \E roll \in [MysteryInReach(world, bombs) -> req.rolls] :
          \E g \in {explode_bomb([world |-> world, bombs |-> bombs, explosions |-> explosions,
                                  players |-> players, queue |-> <<>>, detonated |-> <<>>],
                                 id, roll, now)} :
          \E path \in {explode_bomb_path(w1, b, explosions, roll, now)} :
             /\ world' = g.world
             /\ bombs' = StoreRetainActive(g.bombs)
             /\ explosions' = g.explosions
             /\ last_op' = [op |-> "blast", bomb |-> b, w |-> world, ex |-> explosions,
                            bombs |-> bombs,
                            path |-> path, detonated |-> g.detonated]
    /\ UNCHANGED <<phase, req, mob_spawners, mobs, players, now, ticks, delta_time,
                   next_player_id, connect_queue, links, add_blocks_timer, sent, before, moves>>

\* game_process_explosions_and_bombs of a frame of dt ms while an explosion
\* is left
Age(dt) ==
    /\ phase = "maze"
    /\ ticks < req.ticks
    /\ DOMAIN explosions.items # {}
    /\ game_process_explosions_and_bombs(dt, now + dt)
    /\ now' = now + dt
    /\ delta_time' = dt
    /\ ticks' = ticks + 1
    /\ UNCHANGED <<phase, req, mob_spawners, mobs, next_player_id, connect_queue, links,
                   add_blocks_timer, sent, before, moves>>

NextBlast ==
    \/ Maze
    \/ \E pos \in NearCells, range \in 1 .. MaxBlastRange : LayBomb(pos, range, 0)
    \/ \E id \in 1 .. BlastBombIds : Blast(id)
    \/ \E dt \in BlastDeltas : Age(dt)

SpecBlast == InitBlast /\ [][NextBlast]_vars

----------------------------------------------------------------------------
(* populate_blocks on a map of two zones *)

\* the calls of populate_blocks in a run
RefillCalls == 4

\* the blocks of a map whose first zone is two blocks short of its quota
CrowdBlocks == {pos \in FreeCells(WorldNew(21, 3)) : pos[1] >= 6 /\ pos[1] <= 12}

\* the tiles players and mobs stand on when populate_blocks is called
RefillEntities == {MapPosition(2, 1), MapPosition(18, 1)}

\* a run on a 21 x 3 map: zone 0 is 16 x 3 with quota 9, zone 1 is 5 x 3
\* with quota 3
RefillRun(blocks) ==
    [blocks |-> blocks] @@
    [DuelRun EXCEPT !.size = <<21, 3>>, !.ticks = RefillCalls,
                    !.populate_draws = {<<1, 1>>, <<3, 1>>, <<14, 1>>, <<17, 1>>, <<19, 1>>}]

InitRefill == \E blocks \in {{}, CrowdBlocks} : Setup(RefillRun(blocks))

\* one call of populate_blocks with the tiles of the players and mobs, as
\* game_loop makes it when add_blocks_timer has run out
Populate(entities) ==
    /\ phase = "maze"
    /\ ticks < req.ticks
    /\ \E blocks \in PopulateBlockSets(world, entities, req.populate_draws) :
          /\ world' = populate_blocks(world, blocks)
          /\ last_op' = [op |-> "refill", w |-> world, entities |-> entities, blocks |-> blocks]
    /\ ticks' = ticks + 1
    /\ UNCHANGED <<phase, req, mob_spawners, mobs, players, bombs, explosions, now, delta_time,
                   next_player_id, connect_queue, links, add_blocks_timer, sent, before, moves>>

NextRefill ==
    \/ Maze
    \/ \E entities \in SUBSET RefillEntities : Populate(entities)

SpecRefill == InitRefill /\ [][NextRefill]_vars

----------------------------------------------------------------------------
(* Effects of one player *)

\* the effects a player holds at a time and the frames of a run
MaxEffects == 3
FxTicks == 5

\* the durations add_random_effect draws (3 to 10 s), ms
FxDurations == {3000, 4000}

FxRun == [DuelRun EXCEPT !.ticks = FxTicks, !.delta_times = {1000, 2000}]

InitFx == Setup(FxRun)

\* a player joins on (1,1) of a new map: handle_player_join makes it Active
\* and invincible
FxJoin ==
    /\ phase = "new"
    /\ world' = WorldNew(req.size[1], req.size[2])
    /\ players' = (0 :> [set_invincible(PlayerNew(0)) EXCEPT !.position = MapPosition(1, 1),
                                                             !.state = Active])
    /\ phase' = "fx"
    /\ last_op' = [op |-> "join"]
    /\ UNCHANGED <<req, mob_spawners, mobs, bombs, explosions, now, ticks, delta_time,
                   next_player_id, connect_queue, links, add_blocks_timer, sent, before, moves>>

\* Player::add_effect of an effect of that type and duration, as
\* add_random_effect calls it
AddEffect(effect_type, duration) ==
    /\ phase = "fx"
    /\ Len(players[0].effects) < MaxEffects
    /\ players' = [players EXCEPT ![0] = add_effect(@, EffectNew(effect_type, duration))]
    /\ last_op' = [op |-> "effect", effect_type |-> effect_type]
    /\ UNCHANGED <<phase, req, world, mob_spawners, mobs, bombs, explosions, now, ticks,
                   delta_time, next_player_id, connect_queue, links, add_blocks_timer, sent,
                   before, moves>>

\* Player::update of a frame of dt ms for the player, who does not move
FxTick(dt) ==
    /\ phase = "fx"
    /\ ticks < req.ticks
    /\ players' = [players EXCEPT ![0] = update(@, world, dt)]
    /\ ticks' = ticks + 1
    /\ now' = now + dt
    /\ delta_time' = dt
    /\ last_op' = [op |-> "tick", effects |-> players[0].effects]
    /\ UNCHANGED <<phase, req, world, mob_spawners, mobs, bombs, explosions, next_player_id,
                   connect_queue, links, add_blocks_timer, sent, before, moves>>

NextFx ==
    \/ FxJoin
    \/ \E effect_type \in {SpeedUp, SlowDown, Invincibility}, duration \in FxDurations :
          AddEffect(effect_type, duration)
    \/ \E dt \in req.delta_times : FxTick(dt)

SpecFx == InitFx /\ [][NextFx]_vars

----------------------------------------------------------------------------
(* The name of a joining player *)

\* a name is a sequence of characters.  The characters of the runs: a
\* letter, a digit, the underscore (word characters, \w), two characters of
\* the punctuation list, a blank (\s) and two characters of neither kind
NameChars == {"a", "7", "_", "-", "!", " ", "<", "#"}

WordChars == {"a", "7", "_"}
SpaceChars == {" "}
Punctuation == {",", ".", "_", ":", "'", "!", "^", "*", "(", ")", "=", "-"}

\* the longest free beginning of a name of the runs, and the lengths of the
\* run of one character that follows it
NamePrefix == 2
PadLens == {0, 1, 28, 29, 30, 31}

\* chars().take(30)
NameTake == 30

\* the character class [^\w\s,._:'!^*()=\-] of the pattern
InClass(c) == c \notin WordChars /\ c \notin SpaceChars /\ c \notin Punctuation

\* the matches of ^[^\w\s,._:'!^*()=\-]+$ in name, as pairs of first and last
\* index: ^ and $ (no multi-line flag) hold at the two ends of the text only,
\* so the one possible match is the whole of a name that is not empty and
\* has characters of the class only
NameMatches(name) ==
    {m \in {<<1, Len(name)>>} : /\ Len(name) >= 1
                                /\ \A i \in m[1] .. m[2] : InClass(name[i])}

\* r.replace_all(name, ""): the characters outside every match
replace_all(name) ==
    LET out == {i \in 1 .. Len(name) : \A m \in NameMatches(name) : i < m[1] \/ i > m[2]}
        RECURSIVE Pick(_)
        Pick(i) == IF i > Len(name) THEN <<>>
                   ELSE (IF i \in out THEN <<name[i]>> ELSE <<>>) \o Pick(i + 1)
    IN Pick(1)

take(name, n) == SubSeq(name, 1, IF Len(name) < n THEN Len(name) ELSE n)

sanitise_name(name) == take(replace_all(name), NameTake)

\* Player::set_name
set_name(p, name) == [f \in DOMAIN p \cup {"name"} |-> IF f = "name" THEN name ELSE p[f]]

\* the sequences of at most n characters of NameChars
RECURSIVE Strings(_)
Strings(n) ==
    IF n = 0 THEN {<<>>}
    ELSE LET shorter == Strings(n - 1)
         IN shorter \cup {Append(s, c) : s \in shorter, c \in NameChars}

Pad(c, k) == [i \in 1 .. k |-> c]

Names == {s \o Pad(c, k) : s \in Strings(NamePrefix), c \in NameChars, k \in PadLens}

NameRun(name) == [name |-> name] @@ DuelRun

InitName == \E name \in Names : Setup(NameRun(name))

\* handle_player_join on JoinGame(name) for the first player of a new map
NameJoin ==
    /\ phase = "new"
    /\ world' = WorldNew(req.size[1], req.size[2])
    /\ players' = (0 :> [set_invincible(set_name(PlayerNew(0), sanitise_name(req.name)))
                            EXCEPT !.position = MapPosition(1, 1), !.state = Active])
    /\ phase' = "named"
    /\ last_op' = [op |-> "join", name |-> req.name]
    /\ UNCHANGED <<req, mob_spawners, mobs, bombs, explosions, now, ticks, delta_time,
                   next_player_id, connect_queue, links, add_blocks_timer, sent, before, moves>>

NextName == NameJoin

SpecName == InitName /\ [][NextName]_vars

----------------------------------------------------------------------------
(* Properties *)

\* the tiles of the map size reported by sizes()
MapTiles == {MapPosition(x, y) : x \in 0 .. MapW(world) - 1, y \in 0 .. MapH(world) - 1}

\* the border of the map size reported by sizes()
BorderTiles ==
    {pos \in MapTiles : \/ pos[1] = 0 \/ pos[1] = MapW(world) - 1
                        \/ pos[2] = 0 \/ pos[2] = MapH(world) - 1}

\* the end of an iteration of game_loop
TickBoundary == phase = "idle" /\ ticks > 0

\* the bombs in the bomb store that player pid owns
BombsOf(pid) == {b \in DOMAIN bombs.items : bombs.items[b].pid = pid}

\* C1: at every tick boundary each player in the player map has cur_bombs
\* equal to the number of bombs in the bomb store that it owns.
C1_CurBombsCountsOwnBombs ==
    TickBoundary =>
        \A pid \in DOMAIN players : players[pid].cur_bombs = Cardinality(BombsOf(pid))

\* C2: at every tick boundary, for every tile, the cell grid holds Bomb if
\* and only if the internal index holds Bomb(id) with id in the bomb store.
C2_BombCellIffIndexedBomb ==
    TickBoundary =>
        \A pos \in MapTiles :
            (get_cell(world, pos) = Bomb)
                <=> (/\ get_internal_cell(world, pos).tag = "Bomb"
                     /\ StoreHas(bombs, get_internal_cell(world, pos).id))

\* the cell types that end a ray
StopsBlast == {Wall, Mystery, NoCell}

\* the tiles on the rays of bomb b: up to its range in the four directions,
\* ending before a Wall, a Mystery block or the edge of the map
RayCells(b) ==
    {pos \in MapTiles :
        \E k \in 1 .. Len(RayOffsets), d \in 1 .. b.range :
            /\ pos = PosAdd(b.position, OffMul(RayOffsets[k], d))
            /\ \A e \in 1 .. d :
                  get_cell(world, PosAdd(b.position, OffMul(RayOffsets[k], e))) \notin StopsBlast}

\* the tiles the blast of bomb b gets to: those on its rays and the Mystery
\* block that ends a ray
BlastCells(b) ==
    RayCells(b) \cup
    {pos \in MapTiles :
        \E k \in 1 .. Len(RayOffsets), d \in 1 .. b.range :
            /\ pos = PosAdd(b.position, OffMul(RayOffsets[k], d))
            /\ get_cell(world, pos) = Mystery
            /\ \A e \in 1 .. d - 1 :
                  get_cell(world, PosAdd(b.position, OffMul(RayOffsets[k], e))) \notin StopsBlast}

\* the live bombs that sit on the rays of bomb id
Chained(id) ==
    {c \in DOMAIN bombs.items :
        \E pos \in RayCells(bombs.items[id]) :
            get_cell(world, pos) = Bomb /\ get_internal_cell(world, pos) = ICBomb(c)}

RECURSIVE ChainFrom(_, _)
ChainFrom(S, n) ==
    IF n = 0 THEN S ELSE ChainFrom(S \cup UNION {Chained(id) : id \in S}, n - 1)

\* the bombs that go off with bomb id
Chain(id) == ChainFrom({id}, Cardinality(DOMAIN bombs.items))

\* the live bombs whose detonation reaches tile pos on a ray, directly or
\* through a chain of bombs
Reaching(pos) ==
    {id \in DOMAIN bombs.items : \E c \in Chain(id) : pos \in RayCells(bombs.items[c])}

\* the same, the Mystery block that ends a ray included
Blasting(pos) ==
    {id \in DOMAIN bombs.items : \E c \in Chain(id) : pos \in BlastCells(bombs.items[c])}

\* the earliest detonation timestamp among the bombs of S
Earliest(S) ==
    CHOOSE ts \in {bombs.items[id].timestamp : id \in S} :
        \A id \in S : ts <= bombs.items[id].timestamp

\* an explosion is still on tile pos
Burning(pos) == \E id \in DOMAIN explosions.items : explosions.items[id].position = pos

\* C3: at every tick boundary every tile that the detonation of a live bomb
\* would reach carries, in the danger map, the earliest detonation
\* timestamp of the live bombs reaching it (tiles that hold a bomb or on
\* which an explosion still burns are left out).
C3_DangerIsEarliestBlast ==
    TickBoundary =>
        \A pos \in MapTiles :
            (Reaching(pos) # {} /\ get_cell(world, pos) # Bomb /\ ~Burning(pos))
                => get_mob_data(world, pos) = Earliest(Reaching(pos))

\* C4: at every tick boundary a danger map entry Some(ts) on a tile on which
\* no explosion burns has a chain of live bombs whose detonation reaches the
\* tile, the earliest at ts; so with no bomb and no explosion left every
\* entry is None.
C4_DangerHasLiveBomb ==
    TickBoundary =>
        \A pos \in MapTiles :
            (get_mob_data(world, pos) # NoTs /\ ~Burning(pos))
                => /\ Blasting(pos) # {}
                   /\ get_mob_data(world, pos) = Earliest(Blasting(pos))

\* the tiles that read Wall after World::new: those it writes Wall to, as
\* far as the cell grid holds them
WallsAtConstruction ==
    {pos \in NewWallPositions(MapW(world), MapH(world)) : GridInBounds(world.data, pos)}

\* the Mystery cells of the cell grid
MysteryCells == {pos \in MapTiles : get_cell(world, pos) = Mystery}

\* the sum of num_blocks over the zones of indices S
RECURSIVE SumBlocks(_)
SumBlocks(S) ==
    IF S = {} THEN 0
    ELSE LET zi == CHOOSE i \in S : TRUE
         IN world.zones.zones[zi].num_blocks + SumBlocks(S \ {zi})

\* C5: after any sequence of game operations every cell that was Wall after
\* world construction is still Wall, the border tiles among them.
C5_WallsStayWalls ==
    phase # "new" =>
        \A pos \in WallsAtConstruction : get_cell(world, pos) = Wall

\* blocks have been refilled after a bomb went off, and the border is Wall
C5_Witness ==
    /\ last_op.op = "players"
    /\ last_op.blocks # {}
    /\ explosions.next_id > 1
    /\ BorderTiles \subseteq WallsAtConstruction

\* C7: after construction and after any set_cell the game makes the sum over
\* all zones of num_blocks equals the number of Mystery cells.
C7_ZoneBlocksCountMystery ==
    phase # "new" => SumBlocks(DOMAIN world.zones.zones) = Cardinality(MysteryCells)

\* a Mystery block was blown up and the refill has put a new one
C7_Witness ==
    /\ last_op.op = "players"
    /\ last_op.blocks # {}
    /\ last_op.blocks \subseteq MysteryCells
    /\ \E pos \in MapTiles : get_cell(world, pos) \in {ItemBomb, ItemRange}

\* C6: World construction with any requested width and height yields an
\* odd-sized map in which every border cell of the reported map size reads
\* Wall through get_cell.
C6_OddMapWithWallBorder ==
    phase = "built" =>
        /\ MapW(world) % 2 = 1
        /\ MapH(world) % 2 = 1
        /\ \A pos \in BorderTiles : get_cell(world, pos) = Wall

\* C8: on each player's outbound stream no FrameData is sent before the
\* SpawnPlayer message: whoever has been sent FrameData has been sent
\* SpawnPlayer before.
C8_SpawnPlayerBeforeFrameData ==
    \A pid \in DOMAIN sent :
        /\ "FrameData" \in sent[pid] => "SpawnPlayer" \in sent[pid]
        /\ <<"FrameData", "SpawnPlayer">> \notin before[pid]

\* C9: on a stream on which Dead and Disconnect both occur Dead is sent
\* before Disconnect, and nothing is sent after Disconnect.
C9_DeadBeforeDisconnectLast ==
    \A pid \in DOMAIN sent :
        /\ \A k \in MessageKinds : <<"Disconnect", k>> \notin before[pid]
        /\ ({"Dead", "Disconnect"} \subseteq sent[pid]) => <<"Dead", "Disconnect">> \in before[pid]

\* a player was sent Dead and then Disconnect and was removed
C9_Witness ==
    /\ last_op.op = "players"
    /\ \E pid \in last_op.told : <<"Dead", "Disconnect">> \in before[pid]

\* the place of a state on Joining -> Active -> Dying -> Dead
StateRank(st) == CASE st = Joining -> 0 [] st = Active -> 1 [] st = Dying -> 2 [] st = Dead -> 3

\* C10: a player's state only moves forward along Joining -> Active ->
\* Dying -> Dead: Active is entered from Joining only, Dying is never left
\* for Joining or Active, and Dead is never left.
C10_StateOnlyMovesForward ==
    \A pid \in DOMAIN moves :
        \A m \in moves[pid] :
            /\ StateRank(m[1]) < StateRank(m[2])
            /\ m[2] = Active => m[1] = Joining

\* the players that changed state in the player map and are no longer in it
Gone == {pid \in DOMAIN moves : pid \notin DOMAIN players /\ moves[pid] # {}}

\* C11: every player that enters Dying becomes Dead, is then sent
\* Disconnect and is removed from the player map: a player that entered
\* Dying and is gone from the map, its connection still open, has become
\* Dead and was sent Disconnect; and no Dead player is in the map at the end
\* of a tick.
C11_DyingEndsDeadAndDisconnected ==
    /\ TickBoundary => \A pid \in DOMAIN players : ~is_dead(players[pid])
    /\ \A pid \in Gone :
          ((\E m \in moves[pid] : m[2] = Dying) /\ links[pid].up)
              => /\ <<Dying, Dead>> \in moves[pid]
                 /\ "Disconnect" \in sent[pid]

\* what ends the ray of a detonation: a Wall, a Mystery block, the edge of
\* the map or a Bomb cell
StopsRay == {Wall, Mystery, NoCell, Bomb}

\* the passable tiles on the rays of bomb b, up to its range
PassableRay(b) ==
    {pos \in MapTiles :
        \E k \in 1 .. Len(RayOffsets), d \in 1 .. b.range :
            /\ pos = PosAdd(b.position, OffMul(RayOffsets[k], d))
            /\ \A e \in 1 .. d :
                  get_cell(world, PosAdd(b.position, OffMul(RayOffsets[k], e))) \notin StopsRay}

\* the live bombs that lie on an unobstructed ray of bomb b, within its range
OnRay(b) ==
    {c \in DOMAIN bombs.items :
        \E k \in 1 .. Len(RayOffsets), d \in 1 .. b.range :
            /\ bombs.items[c].position = PosAdd(b.position, OffMul(RayOffsets[k], d))
            /\ \A e \in 1 .. d - 1 :
                  get_cell(world, PosAdd(b.position, OffMul(RayOffsets[k], e))) \notin StopsRay}

RECURSIVE OnRayFrom(_, _)
OnRayFrom(S, n) ==
    IF n = 0 THEN S
    ELSE OnRayFrom(S \cup UNION {OnRay(bombs.items[id]) : id \in S}, n - 1)

\* the bombs whose timer runs out in the tick that has started
Expiring == {id \in DOMAIN bombs.items : ~BombTick(bombs.items[id], delta_time).active}

\* the bombs that are to go off in this tick: those whose timer runs out and
\* the live bombs on their rays, transitively
GoingOff == OnRayFrom(Expiring, Cardinality(DOMAIN bombs.items))

\* tile pos of world w carries an explosion of the store ex
Carries(w, ex, pos) ==
    /\ get_internal_cell(w, pos).tag = "Explosion"
    /\ StoreHas(ex, get_internal_cell(w, pos).id)

\* C12: when a bomb's timer expires every live bomb on an unobstructed ray
\* within the range of a detonating bomb (transitively) detonates in the
\* same tick: after game_process_explosions_and_bombs none of them is in the
\* bomb store, none of their cells is Bomb, and their cells and the passable
\* tiles of their rays carry an explosion.
C12_ChainDetonatesInOneTick ==
    [][(phase = "bombs" /\ phase' = "players") =>
          \A c \in GoingOff :
             /\ ~StoreHas(bombs', c)
             /\ get_cell(world', bombs.items[c].position) # Bomb
             /\ Carries(world', explosions', bombs.items[c].position)
             /\ \A pos \in PassableRay(bombs.items[c]) : Carries(world', explosions', pos)]_vars

\* the messages of a queue that are no heartbeat
NonPing(queue) == SelectSeq(queue, LAMBDA m : m.tag # "Ping")

\* the messages the client of connection pid has sent so far
SentBy(pid) == SubSeq(req.script[pid], 1, links[pid].taken)

RECURSIVE LeadingPings(_)
LeadingPings(queue) ==
    IF queue = <<>> \/ Head(queue).tag # "Ping" THEN 0 ELSE 1 + LeadingPings(Tail(queue))

\* the payloads of the heartbeats among the first n messages of a queue
PingPayloads(queue, n) ==
    LET pings == SelectSeq(SubSeq(queue, 1, n), LAMBDA m : m.tag = "Ping")
    IN [i \in 1 .. Len(pings) |-> pings[i].payload]

\* C14: a heartbeat does not use up the one message of a tick: when the
\* inbound queue of a joined player holds Ping messages followed by an
\* Action at the start of recv_one, every Ping taken is answered with a
\* Pong of the same payload and the Action is returned (and becomes the
\* player's action) in the same tick.
C14_PingsDoNotDelayAction ==
    [][(phase = "idle" /\ phase' = "bombs") =>
          \A pid \in DOMAIN players :
             LET queue == links[pid].queue
                 k == LeadingPings(queue)
             IN (/\ links[pid].up
                 /\ has_joined(players[pid])
                 /\ k >= 1
                 /\ Len(queue) > k
                 /\ queue[k + 1].tag = "Action")
                => /\ links'[pid].pongs =
                         links[pid].pongs \o
                         PingPayloads(queue, Len(queue) - Len(links'[pid].queue))
                   /\ links'[pid].got = Append(links[pid].got, queue[k + 1])
                   /\ pid \in DOMAIN players'
                   /\ players'[pid].action = queue[k + 1].action]_vars

\* C15: after a bomb was placed for a player in response to a fire action
\* no further bomb is placed for that player until an action without fire
\* is received, whatever tile it stands on and however many bombs it has
\* left.
C15_FireIsEdgeTriggered ==
    [][(phase = "players" /\ phase' = "idle") =>
          \A pid \in last_op'.placed : ~links[pid].held]_vars

\* the bombs that are added to the bomb store in the step
NewBombs == {bombs'.items[id] : id \in DOMAIN bombs'.items \ DOMAIN bombs.items}

\* C16: game_process_players adds a bomb only for a player that is Active,
\* on the tile the player stands on, when that tile is Empty and the player
\* has cur_bombs < max_bombs; no bomb is added for a Joining, Dying or Dead
\* player, and at most one bomb is added per player and tick.
C16_BombOnlyForActivePlayer ==
    [][(phase = "players" /\ phase' = "idle") =>
          /\ \A b \in NewBombs :
                /\ b.pid \in DOMAIN players
                /\ players[b.pid].state = Active
                /\ b.position = players[b.pid].position
                /\ get_cell(world, b.position) = Empty
                /\ players[b.pid].cur_bombs < players[b.pid].max_bombs
          /\ \A pid \in DOMAIN players :
                Cardinality({b \in NewBombs : b.pid = pid}) <= 1]_vars

\* a bomb was placed in a tick in which a fire action arrived while the
\* player still had its earlier bomb out
C16_Witness ==
    /\ last_op.op = "players"
    /\ last_op.placed # {}
    /\ \E pid \in DOMAIN players :
          /\ pid \notin last_op.placed
          /\ players[pid].cur_bombs = players[pid].max_bombs
          /\ links[pid].held

IssuesFresh(store, after) ==
    /\ after.next_id >= store.next_id
    /\ \A id \in DOMAIN after.items \ DOMAIN store.items :
          id >= store.next_id /\ id < after.next_id

\* C18: every bomb, explosion and player is given an id that is not 0 and
\* is greater than every id given out earlier for its kind, so that no id
\* is issued twice.
C18_IdsNonZeroAndIncreasing ==
    /\ [](/\ \A id \in DOMAIN bombs.items : id # 0 /\ bombs.items[id].id = id
          /\ \A id \in DOMAIN explosions.items : id # 0 /\ explosions.items[id].id = id
          /\ \A pid \in DOMAIN links : pid # 0)
    /\ [][/\ IssuesFresh(bombs, bombs')
          /\ IssuesFresh(explosions, explosions')
          /\ next_player_id' >= next_player_id
          /\ \A pid \in DOMAIN links' \ DOMAIN links :
                pid >= next_player_id /\ pid < next_player_id']_vars

\* the Empty cells of the map that are not on its border
InteriorEmpty == {pos \in MapTiles \ BorderTiles : get_cell(world, pos) = Empty}

\* C19: find_nearest_blank(p) returns a cell that is Empty and not on the
\* border, or the fallback (1,1); it returns p when p is Empty, and (1,1)
\* when the map has no Empty cell.
C19_BlankIsEmptyInteriorOrFallback ==
    last_op.op = "blank" =>
        /\ \/ last_op.found = MapPosition(1, 1)
           \/ last_op.found \in InteriorEmpty
        /\ get_cell(world, last_op.pos) = Empty => last_op.found = last_op.pos
        /\ (\A pos \in MapTiles : get_cell(world, pos) # Empty)
              => last_op.found = MapPosition(1, 1)

\* find_nearest_blank found an Empty cell for a position that is not Empty,
\* and it is not the fallback
C19_Witness ==
    /\ last_op.op = "blank"
    /\ get_cell(world, last_op.pos) # Empty
    /\ last_op.found # MapPosition(1, 1)
    /\ last_op.found \in InteriorEmpty

\* the cells of the square ring of that radius around pos
Ring(pos, radius) ==
    {q \in MapTiles \ BorderTiles :
        /\ diffu32(q[1], pos[1]) <= radius
        /\ diffu32(q[2], pos[2]) <= radius
        /\ (diffu32(q[1], pos[1]) = radius \/ diffu32(q[2], pos[2]) = radius)}

\* the place of a ring cell in the order top, bottom, left, right, each edge
\* from its low end
RingRank(pos, radius, q) ==
    IF q[2] = pos[2] - radius THEN q[1] - pos[1]
    ELSE IF q[2] = pos[2] + radius THEN 100 + q[1] - pos[1]
    ELSE IF q[1] = pos[1] - radius THEN 200 + q[2] - pos[2]
    ELSE 300 + q[2] - pos[2]

\* C20: when p is not Empty and an interior Empty cell lies on a square ring
\* of radius 1..20 around p, find_nearest_blank(p) returns the Empty cell of
\* the smallest such ring that comes first in the order top, bottom, left,
\* right edge; it returns (1,1) only when no such ring holds an interior
\* Empty cell.
C20_NearestRingFirst ==
    (last_op.op = "blank" /\ get_cell(world, last_op.pos) # Empty) =>
        LET p == last_op.pos
            rings == {r \in 1 .. 20 : Ring(p, r) \cap InteriorEmpty # {}}
        IN IF rings = {} THEN last_op.found = MapPosition(1, 1)
           ELSE LET r == CHOOSE k \in rings : \A j \in rings : k <= j
                    open == Ring(p, r) \cap InteriorEmpty
                IN /\ last_op.found \in open
                   /\ \A q \in open : RingRank(p, r, last_op.found) <= RingRank(p, r, q)

\* the tiles that hold an explosion of the store
ExplosionTiles == {explosions.items[id].position : id \in DOMAIN explosions.items}

\* the four neighbours of a tile
Neighbours(pos) == {PosAdd(pos, RayOffsets[k]) : k \in 1 .. Len(RayOffsets)}

\* C21: on a freshly constructed map a bomb of range 1 on (1,1) makes
\* exactly one explosion when it detonates, on its own cell.
C21_CornerBombOneExplosion ==
    (last_op.op = "blast" /\ last_op.pos = MapPosition(1, 1) /\ last_op.range = 1) =>
        /\ Cardinality(DOMAIN explosions.items) = 1
        /\ ExplosionTiles = {MapPosition(1, 1)}

\* C21, amended: on a freshly constructed map a bomb of range 1 on (1,1)
\* makes one explosion on its own cell and one on each neighbour that is
\* Empty; World::new leaves (2,1) and (1,2) Empty unless they are on the
\* border, so there is exactly one explosion only when the map is no larger
\* than 3 tiles in both directions.
C21_CornerBombBlastsOpenNeighbours ==
    (last_op.op = "blast" /\ last_op.pos = MapPosition(1, 1) /\ last_op.range = 1) =>
        LET open == {n \in Neighbours(MapPosition(1, 1)) : get_cell(world, n) = Empty}
        IN /\ ExplosionTiles = {MapPosition(1, 1)} \cup open
           /\ Cardinality(DOMAIN explosions.items) = 1 + Cardinality(open)
           /\ open = {n \in {MapPosition(2, 1), MapPosition(1, 2)} :
                         n[1] < MapW(world) - 1 /\ n[2] < MapH(world) - 1
                         /\ GridInBounds(world.data, n)}

\* the bomb of range 1 on (1,1) went off on a map where it has two Empty
\* neighbours
C21_Witness ==
    /\ last_op.op = "blast"
    /\ last_op.pos = MapPosition(1, 1)
    /\ last_op.range = 1
    /\ Cardinality(DOMAIN explosions.items) = 3

----------------------------------------------------------------------------
(* The danger map after a bomb joins a chain *)

\* the ids of the bombs that are added to the bomb store in the step
NewBombIds == DOMAIN bombs'.items \ DOMAIN bombs.items

\* the tiles the chain of bomb id gets to: the passable tiles on the rays of
\* its bombs and the tiles the bombs lie on
ChainCells(id) ==
    UNION {RayCells(bombs.items[c]) \cup {bombs.items[c].position} : c \in Chain(id)}

\* C22: when game_process_players places a bomb that is chained with another
\* bomb, then after the step every tile the chain gets to (the passable
\* tiles on the rays of its bombs and the bombs' own tiles) carries, in the
\* danger map, the earliest detonation timestamp of the bombs of the chain.
C22_ChainCellsCarryEarliest ==
    [][(phase = "players" /\ phase' = "idle") =>
          \A id \in NewBombIds :
              (Cardinality(Chain(id)') >= 2) =>
                  \A pos \in ChainCells(id)' :
                      get_mob_data(world, pos)' = Earliest(Chain(id))']_vars

----------------------------------------------------------------------------
(* The life of an explosion *)


\* C23: an explosion is harmful from its creation until 0.3 s of tick time
\* have passed and not harmful from then on; it is in the explosion store
\* until 0.5 s have passed and is removed by the aging step in which they
\* have passed.
C23_HarmfulThreeTenthsLivesHalf ==
    [][phase = "blown" =>
          \A id \in DOMAIN explosions.items :
              LET e == explosions.items[id]
                  age == (now' - e.timestamp)
              IN /\ (id \in DOMAIN explosions'.items) <=> (age < 500)
                 /\ (id \in DOMAIN explosions'.items) =>
                       (explosions'.items[id].harmful <=> (age < 300))]_vars

----------------------------------------------------------------------------
(* Items *)

\* the players that are Active and, at their turn in game_process_players,
\* stand on tile pos (update has moved them before process_player_move)
ActiveOn(pos) ==
    {pid \in DOMAIN players : players[pid].state = Active /\ players'[pid].position = pos}

\* the players whose max_bombs goes up by 1 in the step
GainBomb(S) == {pid \in S : players'[pid].max_bombs = players[pid].max_bombs + 1}

\* C24: in game_process_players, when Active players stand on an ItemBomb
\* tile at their turn, exactly one of them gets max_bombs raised by exactly
\* 1 and is sent PowerUp, the others on the tile get nothing, and the tile
\* is not ItemBomb afterwards; an ItemBomb tile without an Active player on
\* it stays, and a player that is not Active keeps its max_bombs.
C24_ItemBombTakenOnce ==
    [][(phase = "players" /\ phase' = "idle") =>
          /\ \A pos \in MapTiles :
                get_cell(world, pos) = ItemBomb =>
                    IF ActiveOn(pos) = {}
                    THEN get_cell(world', pos) = ItemBomb
                    ELSE /\ get_cell(world', pos) # ItemBomb
                         /\ Cardinality(GainBomb(ActiveOn(pos))) = 1
                         /\ \A pid \in GainBomb(ActiveOn(pos)) : "PowerUp" \in sent'[pid]
                         /\ \A pid \in ActiveOn(pos) \ GainBomb(ActiveOn(pos)) :
                               players'[pid].max_bombs = players[pid].max_bombs
          /\ \A pid \in DOMAIN players \cap DOMAIN players' :
                players[pid].state # Active =>
                    players'[pid].max_bombs = players[pid].max_bombs]_vars

----------------------------------------------------------------------------
(* Death by explosion *)

\* the explosion that the internal index of tile pos refers to, in the state
\* before and after the step
BlastOn(pos) == explosions.items[get_internal_cell(world, pos).id]

\* the players that are Active and not invincible and, at their turn in
\* game_process_players, stand on a tile whose internal index refers to a
\* harmful explosion
Blasted ==
    {pid \in DOMAIN players :
        /\ players[pid].state = Active
        /\ ~has_flag(players'[pid], Invincible)
        /\ LET ic == get_internal_cell(world, players'[pid].position)
           IN /\ ic.tag = "Explosion"
              /\ get_internal_cell(world', players'[pid].position) = ic
              /\ StoreHas(explosions, ic.id)
              /\ explosions.items[ic.id].harmful}

\* what the claim says of the death d of player pid by an explosion of owner
DeathAsClaimed(d, pid, owner) ==
    /\ d.pid = pid
    /\ d.dead_sent = 1
    /\ owner = pid => (d.reason = ReasonOwnBomb /\ d.scored = {})
    /\ (owner # pid /\ owner \in DOMAIN players') => d.scored = {<<owner, 1000>>}

----------------------------------------------------------------------------
(* Every bomb goes off *)

\* the bombs that leave the bomb store in the step
GoneBombs == DOMAIN bombs.items \ DOMAIN bombs'.items

\* C26: while the ticks go on, every bomb that is placed is detonated and
\* removed from the bomb store, and when it is removed its cell is not Bomb
\* any more; at a tick boundary every bomb of the store has fuse time left.
C26_EveryBombDetonates ==
    /\ \A id \in 1 .. MaxBombIds : StoreHas(bombs, id) ~> ~StoreHas(bombs, id)
    /\ [](TickBoundary =>
             \A id \in DOMAIN bombs.items :
                 bombs.items[id].active /\ bombs.items[id].remaining > 0)
    /\ [][\A id \in GoneBombs :
             /\ InSeq(last_op'.detonated, id)
             /\ get_cell(world', bombs.items[id].position) # Bomb]_vars

\* the last bomb of the run has left the store after it was detonated
C26_Witness ==
    /\ last_op.op = "bombs"
    /\ InSeq(last_op.detonated, MaxBombIds)
    /\ ~StoreHas(bombs, MaxBombIds)

----------------------------------------------------------------------------
(* Mobs: spawning, targets and danger *)

\* the mobs a step adds to the store
NewMobs == DOMAIN mobs'.items \ DOMAIN mobs.items

\* the spawners that have a mob within range 3
Crowded(k) ==
    \E i \in DOMAIN mobs.items : is_within_range(mobs.items[i].position, mob_spawners[k], 3)

\* floor(0.4 * W * H) of the size the game was made with
MobCap == (2 * req.size[1] * req.size[2]) \div 5

\* C27: the spawn step of game_loop adds at most one mob, adds it on a
\* spawner that had no mob within range 3, adds none when every spawner has
\* one or when the map already holds floor(0.4 W H) mobs, and takes no mob
\* away; the number of mobs never exceeds floor(0.4 W H).
C27_SpawnOneAtFreeSpawnerUnderCap ==
    /\ [](Cardinality(DOMAIN mobs.items) <= MobCap)
    /\ [][phase = "spawn" =>
            /\ DOMAIN mobs.items \subseteq DOMAIN mobs'.items
            /\ Cardinality(NewMobs) <= 1
            /\ \A i \in NewMobs :
                  /\ Cardinality(DOMAIN mobs.items) < MobCap
                  /\ \E k \in 1 .. Len(mob_spawners) :
                        mobs'.items[i].position = mob_spawners[k] /\ ~Crowded(k)
            /\ (\A k \in 1 .. Len(mob_spawners) : Crowded(k)) => NewMobs = {}]_vars

\* the spawn timer has run out on a map that holds floor(0.4 W H) mobs, of
\* which the last was spawned while others stood on the map, and spawn_mob
\* was not called
C27_Witness ==
    /\ last_op.op = "spawn"
    /\ last_op.due
    /\ ~last_op.called
    /\ Cardinality(DOMAIN mobs.items) = MobCap
    /\ MobCap > 1

\* C28: a mob whose target mode is DangerAvoidance is in danger: the
\* re-roll of choose_new_target gives DangerAvoidance to no mob whose danger
\* flag is not set, in particular to no mob that is not smart.
C28_DangerAvoidanceOnlyInDanger ==
    \A i \in DOMAIN mobs.items :
        mobs.items[i].target_mode = DangerAvoidance => mobs.items[i].danger

\* the danger map on the tile a mob stood on when its update began
DangerAt(i) == get_mob_data(world, last_op.before[i].position)

\* C29: after Mob::update of a mob, (a) a smart mob that was not in danger
\* on a tile with danger data is in danger and in target mode
\* DangerAvoidance, (b) a mob that was in danger on a tile without danger
\* data is not in danger and choose_new_target has run, (c) a mob that is
\* not smart and was not in danger is not in danger.
C29_DangerFollowsTile ==
    last_op.op = "mobs" =>
        \A i \in DOMAIN last_op.before :
            LET was == last_op.before[i]
                is == last_op.updated[i]
            IN /\ (was.smart /\ ~was.danger /\ DangerAt(i) # NoTs) =>
                      (is.danger /\ is.target_mode = DangerAvoidance)
               /\ (was.danger /\ DangerAt(i) = NoTs) => (~is.danger /\ is.rolls >= 1)
               /\ (~was.smart /\ ~was.danger) => ~is.danger

\* a mob that was in danger, which it got into on a tile with danger data,
\* has left the danger map and has a new target
C29_Witness ==
    /\ last_op.op = "mobs"
    /\ \E i \in DOMAIN last_op.before :
          /\ last_op.before[i].danger
          /\ last_op.before[i].smart
          /\ DangerAt(i) = NoTs
          /\ ~last_op.updated[i].danger
          /\ last_op.updated[i].rolls >= 1

----------------------------------------------------------------------------
(* The step path_find returns *)

\* the cells a mob gets to from pos in at most n steps
RECURSIVE Within(_, _)
Within(S, n) ==
    IF n = 0 THEN S
    ELSE Within(S \cup {q \in MapTiles : can_pass_position(world, q) /\ \E p \in S : distance_to(p, q) = 1},
                n - 1)

\* the length of a shortest way of the mob from pos to a cell of Within({pos}, n)
RECURSIVE StepsTo(_, _, _)
StepsTo(S, pos_to, n) == IF pos_to \in S THEN n ELSE StepsTo(Within(S, 1), pos_to, n + 1)

\* C30: path_find(from, to, range) returns None when from = to or when the
\* mob cannot get to `to` in at most range steps; otherwise it returns a
\* step of one tile up, right, down or left to a cell the mob can pass, from
\* which a shortest way to `to` goes on.
C30_PathFindFirstStepOfShortest ==
    last_op.op = "path" =>
        LET from == last_op.from
            to == last_op.to
            best == last_op.best
        IN IF from = to \/ to \notin Within({from}, last_op.range)
           THEN best = NoOffset
           ELSE /\ best \in {RayOffsets[k] : k \in 1 .. Len(RayOffsets)}
                /\ can_pass_position(world, PosAdd(from, best))
                /\ StepsTo({PosAdd(from, best)}, to, 1) = StepsTo({from}, to, 0)

\* path_find found a way of more steps than the distance of the two cells,
\* around a block
C30_Witness ==
    /\ last_op.op = "path"
    /\ last_op.best # NoOffset
    /\ StepsTo({last_op.from}, last_op.to, 0) > distance_to(last_op.from, last_op.to)
    /\ \E pos \in MapTiles : get_cell(world, pos) = Mystery

----------------------------------------------------------------------------
(* Safe spaces, blasts, effects and names *)

\* the cells a mob on pos can get to in at most range steps
SafeReach(pos, range) == Within({pos}, range)

\* the cells of S without mob danger data
SafeCells(S) == {c \in S : get_mob_data(world, c) = NoTs}

\* C31: path_find_nearest_safe_space(from, range) returns from when from has
\* no danger data; otherwise a cell without danger data that the mob can
\* get to in at most range steps, of the least number of steps among such
\* cells; when there is no such cell, a cell it can get to whose danger
\* timestamp is the latest of the cells it can get to.
C31_NearestSafeOrLatest ==
    last_op.op = "safe" =>
        LET from == last_op.from
            best == last_op.best
            R == SafeReach(from, last_op.range)
        IN IF get_mob_data(world, from) = NoTs THEN best = from
           ELSE IF SafeCells(R) # {}
                THEN /\ best \in SafeCells(R)
                     /\ \A c \in SafeCells(R) : StepsTo({from}, best, 0) <= StepsTo({from}, c, 0)
                ELSE /\ best \in R
                     /\ \A c \in R : get_mob_data(world, c) <= get_mob_data(world, best)

\* C38: the timestamp of a bomb is the time its fuse runs out, the time of
\* its creation plus the bomb time of its owner in milliseconds: at every
\* tick boundary it is the time of the clock plus what remains of the fuse.
C38_TimestampIsFuseExpiry ==
    TickBoundary =>
        \A b \in DOMAIN bombs.items : bombs.items[b].timestamp = now + bombs.items[b].remaining

\* C39: in the detonation processing of one tick each bomb is detonated at
\* most once: no bomb id is taken twice through explode_bomb_path and
\* bomb_exploded, also when two detonating bombs reach it or when its timer
\* runs out in the tick in which a chain reaches it.
C39_DetonatedAtMostOnce ==
    last_op.op = "bombs" =>
        \A i, j \in 1 .. Len(last_op.detonated) :
            i # j => last_op.detonated[i] # last_op.detonated[j]

\* the cell at distance d on ray k of bomb b
RayCell(b, k, d) == PosAdd(b.position, OffMul(RayOffsets[k], d))

\* the distance of the first cell on ray k of bomb b in world w that stops
\* the ray, range + 1 when no cell within the range does
FirstStop(w, b, k) ==
    LET stops == {d \in 1 .. b.range : get_cell(w, RayCell(b, k, d)) \in StopsRay}
    IN IF stops = {} THEN b.range + 1 ELSE CHOOSE d \in stops : \A e \in stops : d <= e

\* the cells of the rays of b up to and including the first Mystery cell and
\* up to but excluding the first Wall, Bomb or cell outside the map
BlastReach(w, b) ==
    {pos \in {RayCell(b, k, d) : k \in 1 .. Len(RayOffsets), d \in 1 .. b.range} :
        \E k \in 1 .. Len(RayOffsets), d \in 1 .. b.range :
            /\ pos = RayCell(b, k, d)
            /\ \/ d < FirstStop(w, b, k)
               \/ d = FirstStop(w, b, k) /\ get_cell(w, pos) = Mystery}

\* the positions of the explosions of store ex that are not in store ex0
NewBlasts(ex0, ex) == {ex.items[i].position : i \in DOMAIN ex.items \ DOMAIN ex0.items}

\* C32: when a bomb detonates, explode_bomb_path places explosions on its
\* cell and, on each of the four rays, on the cells at distance 1..range up
\* to and including the first Mystery cell and up to but excluding the first
\* Wall, Bomb or cell outside the map, and on no other cell; the item cells
\* among them become Empty and the Mystery cells among them stop being
\* Mystery, the block count of the zone going down by one for each.
C32_BlastStopsAtBlockers ==
    last_op.op = "blast" =>
        LET b == last_op.bomb
            w == last_op.w
            after == last_op.path.world
            cells == BlastReach(w, b)
            blocks == {pos \in cells : get_cell(w, pos) = Mystery}
        IN /\ NewBlasts(last_op.ex, last_op.path.explosions) = {b.position} \cup cells
           /\ \A pos \in cells :
                 get_cell(w, pos) \in {ItemBomb, ItemRange, ItemRandom} => get_cell(after, pos) = Empty
           /\ \A pos \in blocks : get_cell(after, pos) # Mystery
           /\ after.zones.zones[0].num_blocks = w.zones.zones[0].num_blocks - Cardinality(blocks)

\* the cell on position pos of world w reads Bomb and the internal index of
\* pos holds no bomb of the store
LostBomb(w, store, pos) ==
    /\ get_cell(w, pos) = Bomb
    /\ ~(get_internal_cell(w, pos).tag = "Bomb" /\ StoreHas(store, get_internal_cell(w, pos).id))

\* C35: when a ray of a detonation reaches a Bomb cell whose internal index
\* holds no bomb of the store, the cell is treated as Empty: an explosion is
\* placed on it, the cell does not stay Bomb, and the ray goes on to the
\* cells behind it within the range, as far as they are passable.
C35_LostBombTreatedAsEmpty ==
    last_op.op = "blast" =>
        LET b == last_op.bomb
            w == last_op.w
            new == NewBlasts(last_op.ex, last_op.path.explosions)
        IN \A k \in 1 .. Len(RayOffsets), d \in 1 .. b.range :
              (d = FirstStop(w, b, k) /\ LostBomb(w, last_op.bombs, RayCell(b, k, d)))
                 => /\ RayCell(b, k, d) \in new
                    /\ get_cell(last_op.path.world, RayCell(b, k, d)) # Bomb
                    /\ \A e \in d + 1 .. b.range :
                          (\A f \in d + 1 .. e : get_cell(w, RayCell(b, k, f)) \notin StopsRay)
                              => RayCell(b, k, e) \in new

\* C40: while an explosion of a detonation is in the explosion store and
\* harmful, the internal index of its tile holds an explosion of the store
\* that is harmful, so that process_player_move and game_process_mobs kill
\* on that tile; also when several explosions overlap on the tile and the
\* older one expires first. Stated for the tiles that carry no bomb: a bomb
\* laid on the tile of an explosion takes the index over (C2).
C40_HarmfulTileIsIndexed ==
    \A i \in DOMAIN explosions.items :
        (explosions.items[i].harmful /\ get_cell(world, explosions.items[i].position) # Bomb) =>
            LET ic == get_internal_cell(world, explosions.items[i].position)
            IN /\ ic.tag = "Explosion"
               /\ StoreHas(explosions, ic.id)
               /\ explosions.items[ic.id].harmful

\* the cells whose type differs between world w and the world
ChangedCells(w) == {pos \in MapTiles : get_cell(world, pos) # get_cell(w, pos)}

\* quota - num_blocks of zone zi of world w
Shortfall(w, zi) == w.zones.zones[zi].block_quota - w.zones.zones[zi].num_blocks

\* the zones of w that have not reached their quota
OpenZones(w) == {zi \in DOMAIN w.zones.zones : Shortfall(w, zi) > 0}

\* the candidates populate_blocks can get for zone zi of w: the nearest
\* blank of a position drawn in the zone
Candidates(w, zi) ==
    {find_nearest_blank(w, d) : d \in ZonePositions(w.zones.zones[zi]) \cap req.populate_draws}

\* a candidate populate_blocks passes over: the tile (1,1) or a tile within
\* range 4 of a player or mob
PassedOver(pos, entities) ==
    pos = MapPosition(1, 1) \/ \E e \in entities : is_within_range(e, pos, 4)

\* what one call of populate_blocks changes, but for the zone the block is
\* chosen for: at most one cell, from Empty to Mystery, not (1,1) and not
\* within range 4 of a player or mob; the internal index and the danger map
\* stay as they are
RefillFrame ==
    /\ Cardinality(ChangedCells(last_op.w)) <= 1
    /\ \A pos \in ChangedCells(last_op.w) :
          /\ get_cell(last_op.w, pos) = Empty
          /\ get_cell(world, pos) = Mystery
          /\ ~PassedOver(pos, last_op.entities)
    /\ world.data_internal = last_op.w.data_internal
    /\ world.data_mob = last_op.w.data_mob

\* C33 as stated: one call of populate_blocks changes at most one cell,
\* from Empty to Mystery, chosen for the zone with the largest shortfall
\* among the zones that have not reached their quota, never (1,1) nor a tile
\* within range 4 of a player or mob, and leaves the other cells, the
\* internal index and the danger map unchanged.
C33_RefillForNeediestZone ==
    last_op.op = "refill" =>
        /\ RefillFrame
        /\ \A pos \in ChangedCells(last_op.w) :
              \E zi \in OpenZones(last_op.w) :
                 /\ pos \in Candidates(last_op.w, zi)
                 /\ \A zj \in OpenZones(last_op.w) : Shortfall(last_op.w, zj) <= Shortfall(last_op.w, zi)

\* C33, amended: one call of populate_blocks changes at most one cell, from
\* Empty to Mystery, chosen for a zone that has not reached its quota such
\* that every zone with a larger shortfall had a candidate that was passed
\* over ((1,1) or within range 4 of a player or mob); never (1,1) nor a tile
\* within range 4 of a player or mob; the other cells, the internal index and
\* the danger map stay unchanged.
C33_RefillForFirstZoneThatTakesIt ==
    last_op.op = "refill" =>
        /\ RefillFrame
        /\ \A pos \in ChangedCells(last_op.w) :
              \E zi \in OpenZones(last_op.w) :
                 /\ pos \in Candidates(last_op.w, zi)
                 /\ \A zj \in OpenZones(last_op.w) :
                       Shortfall(last_op.w, zj) > Shortfall(last_op.w, zi)
                          => \E c \in Candidates(last_op.w, zj) : PassedOver(c, last_op.entities)

\* a block was put into the zone of the smaller shortfall, next to no
\* player or mob, while a player stood near a candidate of the other zone
C33_Witness ==
    /\ last_op.op = "refill"
    /\ last_op.entities # {}
    /\ \E pos \in ChangedCells(last_op.w) :
       \E zi, zj \in OpenZones(last_op.w) :
          /\ pos \in Candidates(last_op.w, zi)
          /\ pos \notin Candidates(last_op.w, zj)
          /\ Shortfall(last_op.w, zj) > Shortfall(last_op.w, zi)

\* the number of effects of a type in the effects list of player p
CountEffects(p, effect_type) ==
    Cardinality({i \in 1 .. Len(p.effects) : p.effects[i].effect_type = effect_type})

\* C34: after any sequence of add_effect calls and ticks of a living player
\* its speed is 200 + 50 * (SpeedUp effects in its list - SlowDown effects in
\* its list), and it has the Invincible flag exactly when an Invincibility
\* effect is in its list, overlapping effects of one type included.
C34_SpeedAndFlagFollowEffects ==
    \A pid \in DOMAIN players :
        players[pid].state = Active =>
            /\ players[pid].speed =
                  200 + 50 * (CountEffects(players[pid], SpeedUp) - CountEffects(players[pid], SlowDown))
            /\ has_flag(players[pid], Invincible) <=> CountEffects(players[pid], Invincibility) > 0

\* a tick has ended one of two overlapping Invincibility effects of a
\* player that holds a SpeedUp effect
C34_Witness ==
    /\ last_op.op = "tick"
    /\ \E pid \in DOMAIN players :
          /\ players[pid].state = Active
          /\ CountEffects(players[pid], Invincibility) = 1
          /\ CountEffects(players[pid], SpeedUp) = 1
          /\ Cardinality({i \in 1 .. Len(last_op.effects) :
                             last_op.effects[i].effect_type = Invincibility}) = 2


\* the players that game_process_players served in the call that has returned
Served == DOMAIN players \cup last_op.removed

\* C36: a player whose outbound send failed or whose inbound queue was closed
\* has gone to Dying, and in the same call every other player whose
\* connection stands was still served its frame.
C36_FailedLinkMakesDying ==
    /\ last_op.op = "inputs" =>
          \A pid \in last_op.quit : \E s \in {Joining, Active, Dying, Dead} :
             <<s, Dying>> \in moves[pid]
    /\ last_op.op = "players" =>
          /\ \A pid \in last_op.failed : \E s \in {Joining, Active, Dying, Dead} :
                <<s, Dying>> \in moves[pid]
          /\ last_op.failed # {} =>
                \A q \in Served : SendOk(q) => \E f \in last_op.framed : f[1] = q


\* C37: the name stored for a player that joined with JoinGame(name) is name
\* without its characters that are neither word characters nor of the
\* list ,._:'!^*()=- , cut to 30 characters.
C37_StoredNameIsFiltered ==
    last_op.op = "join" /\ "name" \in DOMAIN last_op =>
       /\ Len(players[0].name) <= NameTake
       /\ players[0].name =
             take(SelectSeq(last_op.name, LAMBDA c : c \in WordChars \cup Punctuation), NameTake)
====
